---- MODULE Spec2Model ----
(***************************************************************************)
(* Water Linked modem driver (wlmodem): sentence codec, streaming parser,  *)
(* modem client, modem simulator and datagram transport.                   *)
(*                                                                         *)
(* Bytes are integers 0..255, byte strings are sequences of bytes.         *)
(***************************************************************************)
EXTENDS Integers, Sequences, FiniteSets, TLC

VARIABLES
    \* the modem client (WlModemBase) and its byte device (MockIODev)
    in_buf,        \* MockIODev.in_buf: bytes waiting to be read by the client
    out_buf,       \* MockIODev.out_buf: bytes written by the client
    _buffer,       \* WlModemBase._buffer
    _holdoff,      \* WlModemBase._holdoff
    _rx_queue,     \* WlModemBase._rx_queue (pending_rx): queued got_packet sentences
    payload_size,  \* WlModemBase.payload_size
    \* the caller of the client
    pc,            \* where the caller is: which call is in progress
    awaited,       \* resp_id of the wait_sentence in progress
    result,        \* the sentence, None or error the last parse / request gave
    ret_data,      \* what the last get_data_packet returned
    delivered,     \* every payload get_data_packet has returned, in order
    ops,           \* number of calls started
    call,          \* the API call in progress, or the last one made
    ret,           \* what the last finished API call returned or raised
    args,          \* the arguments of that call
    \* the input of a run
    msg,           \* the sentence handed to do_frame
    use_checksum,  \* do_frame's checksum argument
    stream,        \* the bytes on the wire: what the device will deliver
    fed,           \* number of bytes of stream already handed to in_buf
    emitted,       \* every sentence or error get_packet has produced so far
    emitted_at,    \* for each of them, how many bytes of stream had been read
    partial,       \* some get_packet call has returned in the middle of a sentence
    \* the datagram socket (WlUDPSocket) and its worker thread
    sock_tx_queue, \* WlUDPSocket._tx_queue: datagrams accepted by send
    sock_rx_queue, \* WlUDPSocket._rx_queue: datagrams waiting for receive
    _tx_buf,       \* WlUDPBase._tx_buf: framed bytes not yet put in a packet
    _rx_buf,       \* WlUDPBase._rx_buf: packet bytes not yet split into frames
    worker,        \* where the worker thread is in WlUDPSocket.run
    run_event,     \* WlUDPSocket.run_event: set until stop clears it
    tx_max,        \* the maxsize of WlUDPSocket._tx_queue (0: no limit)
    rx_max,        \* the maxsize of WlUDPSocket._rx_queue (0: no limit)
    \* the modem simulator (WlModemSimulator)
    tx_queue,          \* WlModemSimulator.tx_queue: packets queued in the modem
    sent,              \* WlModemSimulator.sent
    _link_up_time,     \* WlModemSimulator._link_up_time, relative to the clock
    _next_packet_time, \* WlModemSimulator._next_packet_time, relative to the clock
    _link_up_duration,     \* WlModemSimulator._link_up_duration, in clock steps
    _next_packet_duration, \* WlModemSimulator._next_packet_duration, in clock steps
    since_delivery,    \* clock steps since get_data_packet last gave a packet
    since_configure,   \* clock steps since set_settings was last answered
    flushed,           \* how many queued packets the flushes so far have dropped
    \* the history of a socket run
    accepted,      \* every datagram send has accepted, in order
    received,      \* every datagram receive has returned, in order
    queued         \* every packet handed to cmd_queue_packet, in order

deviceVars == <<in_buf, out_buf>>
parserVars == <<_buffer, _holdoff>>
callerVars == <<pc, awaited, result, ret_data, delivered, ops>>
commandVars == <<call, ret, args>>
codecVars == <<msg, use_checksum>>
streamVars == <<stream, fed>>
historyVars == <<emitted, emitted_at, partial>>
socketVars == <<sock_tx_queue, sock_rx_queue, _tx_buf, _rx_buf, worker>>
simulatorVars == <<tx_queue, sent, _link_up_time, _next_packet_time, _link_up_duration,
                   _next_packet_duration, since_delivery, since_configure,
                   flushed>>
datagramVars == <<accepted, received, queued>>
controlVars == <<run_event, tx_max, rx_max>>
udpVars == <<socketVars, controlVars, simulatorVars, datagramVars>>

vars == <<deviceVars, parserVars, _rx_queue, payload_size, callerVars, commandVars,
          codecVars, streamVars, historyVars, udpVars>>

----------------------------------------------------------------------------
(* Protocol definitions (protocol.py) *)

SOP == 119
EOP == 10
CR == 13
COMMA == 44
DIR_CMD == 99
DIR_RESP == 114
CHECKSUM == 42
CMD_GET_VERSION == 118
CMD_GET_PAYLOAD_SIZE == 110
CMD_GET_BUFFER_LENGTH == 108
CMD_GET_DIAGNOSTIC == 100
CMD_GET_SETTINGS == 99
CMD_SET_SETTINGS == 115
CMD_QUEUE_PACKET == 113
CMD_FLUSH == 102
RESP_GOT_PACKET == 112
ALL_VALID == {CMD_GET_VERSION, CMD_GET_PAYLOAD_SIZE, CMD_GET_BUFFER_LENGTH,
              CMD_GET_DIAGNOSTIC, CMD_GET_SETTINGS, CMD_SET_SETTINGS,
              CMD_QUEUE_PACKET, CMD_FLUSH, RESP_GOT_PACKET}

\* is_eop that knows LF only
is_eop_lf_only(ch) == ch = EOP

is_eop(ch) == ch \in {EOP, CR}

is_checksum(ch) == ch = CHECKSUM

----------------------------------------------------------------------------
(* Byte-string helpers: the Python built-ins the code calls *)

\* bytearray.find(b): 1-based index of the first b in s, 0 when there is none
find(s, b) ==
    IF \E i \in 1..Len(s) : s[i] = b
    THEN CHOOSE i \in 1..Len(s) : s[i] = b /\ \A j \in 1..(i - 1) : s[j] # b
    ELSE 0

\* bytes.split(b',', maxsplit); maxsplit = -1 splits at every comma
RECURSIVE split(_, _)
split(s, maxsplit) ==
    LET idx == find(s, COMMA)
    IN  IF maxsplit = 0 \/ idx = 0
        THEN <<s>>
        ELSE <<SubSeq(s, 1, idx - 1)>> \o split(SubSeq(s, idx + 1, Len(s)), maxsplit - 1)

\* b",".join(options)
RECURSIVE join(_)
join(options) ==
    IF Len(options) = 0 THEN <<>>
    ELSE IF Len(options) = 1 THEN options[1]
    ELSE options[1] \o <<COMMA>> \o join(Tail(options))

\* int(b): optional surrounding whitespace, optional sign, decimal digits with
\* single underscores between them; ok = FALSE stands for ValueError
RECURSIVE strip(_)
strip(s) ==
    LET ws == {9, 10, 11, 12, 13, 32}
    IN  IF Len(s) > 0 /\ s[1] \in ws THEN strip(Tail(s))
        ELSE IF Len(s) > 0 /\ s[Len(s)] \in ws THEN strip(SubSeq(s, 1, Len(s) - 1))
        ELSE s

RECURSIVE digits_value(_, _)
digits_value(s, acc) ==
    IF Len(s) = 0 THEN acc
    ELSE digits_value(Tail(s), IF s[1] = 95 THEN acc ELSE 10 * acc + (s[1] - 48))

int(b) ==
    LET s == strip(b)
        signed == Len(s) > 0 /\ s[1] \in {43, 45}
        d == IF signed THEN Tail(s) ELSE s
        wellformed ==
            /\ Len(d) > 0
            /\ \A i \in 1..Len(d) : d[i] \in 48..57 \/ d[i] = 95
            /\ d[1] # 95 /\ d[Len(d)] # 95
            /\ \A i \in 1..(Len(d) - 1) : ~(d[i] = 95 /\ d[i + 1] = 95)
    IN  IF ~wellformed THEN [ok |-> FALSE, value |-> 0]
        ELSE [ok |-> TRUE,
              value |-> IF signed /\ s[1] = 45 THEN 0 - digits_value(d, 0)
                        ELSE digits_value(d, 0)]

\* "{}".format(n).encode("ascii") for n >= 0
RECURSIVE format_int(_)
format_int(n) ==
    IF n < 10 THEN <<48 + n>> ELSE format_int(n \div 10) \o <<48 + (n % 10)>>

----------------------------------------------------------------------------
(* CRC-8 (crcmod predefined "crc-8": polynomial 0x07, initial value 0) *)

RECURSIVE xor(_, _)
xor(a, b) ==
    IF a = 0 THEN b
    ELSE IF b = 0 THEN a
    ELSE 2 * xor(a \div 2, b \div 2) + ((a + b) % 2)

RECURSIVE crc_shift(_, _)
crc_shift(c, n) ==
    IF n = 0 THEN c
    ELSE crc_shift(IF c >= 128 THEN xor((2 * c) % 256, 7) ELSE 2 * c, n - 1)

crc_table == [b \in 0..255 |-> crc_shift(b, 8)]

RECURSIVE crc_update(_, _)
crc_update(c, data) ==
    IF Len(data) = 0 THEN c
    ELSE crc_update(crc_table[xor(c, data[1])], Tail(data))

crc_func(data) == crc_update(0, data)

----------------------------------------------------------------------------
(* Sentence codec (WlProtocolParser) *)

\* What get_packet / parse hand back: a ModemSentence, None, or a raised error
ModemSentence(cmd, direction, has_options, options) ==
    [kind |-> "sentence", cmd |-> cmd, dir |-> direction,
     has_options |-> has_options, options |-> options]

None == [kind |-> "none", cmd |-> 0, dir |-> 0, has_options |-> FALSE, options |-> <<>>]

Raise(error) ==
    [kind |-> error, cmd |-> 0, dir |-> 0, has_options |-> FALSE, options |-> <<>>]

hex_digit(n) == IF n < 10 THEN 48 + n ELSE 87 + n

\* "*{:02x}".format(checksum)
do_format_checksum(checksum) ==
    <<CHECKSUM, hex_digit(checksum \div 16), hex_digit(checksum % 16)>>

checksum_for_buffer(data) == do_format_checksum(crc_func(data))

\* do_frame: options are written only when the list is given and not empty
do_frame(cmd, direction, has_options, options, checksum) ==
    LET resp == <<SOP, direction, cmd>> \o
                (IF has_options /\ Len(options) > 0
                 THEN <<COMMA>> \o join(options) ELSE <<>>)
        csum == IF checksum THEN checksum_for_buffer(resp) ELSE <<>>
    IN  resp \o csum \o <<EOP>>

\* parse, first half: SOP, length and direction, then the optional checksum.
\* error = "" when the sentence passes; body is the sentence without "*HH"
check_sentence(sentence) ==
    LET n == Len(sentence) IN
    IF sentence[1] # SOP THEN [error |-> "parse_error", body |-> <<>>]
    ELSE IF n < 3 THEN [error |-> "parse_error", body |-> <<>>]
    ELSE IF sentence[2] \notin {DIR_CMD, DIR_RESP}
    THEN [error |-> "parse_error", body |-> <<>>]
    ELSE
        LET got_checksum == is_checksum(sentence[n - 2])
            body == IF got_checksum THEN SubSeq(sentence, 1, n - 3) ELSE sentence
        IN  IF got_checksum /\ SubSeq(sentence, n - 2, n) # checksum_for_buffer(body)
            THEN [error |-> "checksum_error", body |-> <<>>]
            ELSE [error |-> "", body |-> body]

\* decode_fields raising on an unknown code instead of returning None
decode_fields_unknown_raises(body) ==
    IF Len(body) < 3 THEN Raise("index_error")
    ELSE IF body[3] \in ALL_VALID
    THEN LET fragments ==
                IF body[3] \in {CMD_QUEUE_PACKET, RESP_GOT_PACKET}
                THEN split(body, 2) ELSE split(body, -1)
         IN  ModemSentence(body[3], body[2], Len(fragments) > 1, Tail(fragments))
    ELSE Raise("parse_error")

\* parse, second half: the code and the options; sentence[2] of a body cut to
\* two bytes is an IndexError
decode_fields(body) ==
    IF Len(body) < 3 THEN Raise("index_error")
    ELSE IF body[3] \in ALL_VALID
    THEN LET fragments ==
                IF body[3] \in {CMD_QUEUE_PACKET, RESP_GOT_PACKET}
                THEN split(body, 2) ELSE split(body, -1)
         IN  ModemSentence(body[3], body[2], Len(fragments) > 1, Tail(fragments))
    ELSE None

\* parse: sentence is not empty (get_packet never parses an empty buffer)
parse(sentence) ==
    LET checked == check_sentence(sentence)
    IN  IF checked.error # "" THEN Raise(checked.error)
        ELSE decode_fields(checked.body)

get_binary_payload_size(sentence) ==
    IF Len(sentence) # 6 THEN -1
    ELSE IF sentence[1] # SOP THEN -1
    ELSE IF sentence[3] \notin {CMD_QUEUE_PACKET, RESP_GOT_PACKET} THEN -1
    ELSE LET fragments == split(sentence, 2)
         IN  IF Len(fragments) < 2 THEN -1
             ELSE IF int(fragments[2]).ok THEN int(fragments[2]).value ELSE -1

----------------------------------------------------------------------------
(* Streaming parser (WlModemBase.get_packet) *)

\* The state get_packet leaves behind and what it returns
Outcome(res, inb, buf, hold) ==
    [result |-> res, in_buf |-> inb, _buffer |-> buf, _holdoff |-> hold]

\* finish_parse without the _reset_buffer calls of the two except clauses
finish_parse_no_reset_on_error(inb, buf) ==
    LET packet == parse(buf)
    IN  IF packet.kind \in {"sentence", "none"}
        THEN Outcome(packet, inb, <<>>, 0)
        ELSE Outcome(packet, inb, buf, 0)

\* _reset_buffer runs on success and on the two caught errors; any other
\* exception leaves the buffer as it is
finish_parse(inb, buf) ==
    LET packet == parse(buf)
    IN  IF packet.kind = "index_error"
        THEN Outcome(packet, inb, buf, 0)
        ELSE Outcome(packet, inb, <<>>, 0)

\* The while loop of get_packet: one iteration per byte read from the device;
\* is_done is the loop's local flag, set when an EOP is read outside a holdoff
RECURSIVE get_packet_loop(_, _, _, _)
get_packet_loop(inb, buf, hold, is_done) ==
    IF Len(inb) = 0 THEN Outcome(None, inb, buf, hold)
    ELSE
        LET data == Head(inb)
            rest == Tail(inb)
        IN  IF Len(buf) = 0 /\ is_eop(data)
            THEN get_packet_loop(rest, buf, hold, is_done)
            ELSE
                LET eop == hold = 0 /\ is_eop(data)
                    done1 == is_done \/ eop
                    buf1 == IF eop THEN buf ELSE Append(buf, data)
                    hold1 == IF hold > 0 THEN hold - 1 ELSE hold
                    size == IF hold1 = 0 THEN get_binary_payload_size(buf1) ELSE -1
                    hold2 == IF size > 0 THEN size ELSE hold1
                IN  IF hold2 > 0 \/ ~done1
                    THEN get_packet_loop(rest, buf1, hold2, done1)
                    ELSE finish_parse(rest, buf1)

\* get_packet with the holdoff kept in a local instead of in self._holdoff
get_packet_local_holdoff(inb, buf, hold) == get_packet_loop(inb, buf, 0, FALSE)

get_packet(inb, buf, hold) == get_packet_loop(inb, buf, hold, FALSE)

----------------------------------------------------------------------------
(* Inputs of the streaming-parser runs *)

MaxLines == 2        \* lines per text stream
MaxPayloadLen == 10  \* longest binary payload of a single-sentence stream

Text(cmd, direction, options, checksum) ==
    [wire |-> do_frame(cmd, direction, Len(options) > 0, options, checksum),
     sentence |-> ModemSentence(cmd, direction, Len(options) > 0, options)]

\* Well-formed sentences, as the modem (or the host) would encode them
GoodSentences ==
    { Text(CMD_GET_BUFFER_LENGTH, DIR_RESP, <<<<50>>>>, FALSE),     \* wrl,2
      Text(CMD_GET_BUFFER_LENGTH, DIR_RESP, <<<<50>>>>, TRUE),      \* wrl,2*hh
      Text(RESP_GOT_PACKET, DIR_RESP, <<<<50>>, <<EOP, CR>>>>, FALSE), \* wrp,2,\n\r
      Text(CMD_GET_VERSION, DIR_CMD, <<>>, FALSE) }                 \* wcv

\* Lines that are not sentences, each with its terminator
BadLines ==
    { <<SOP, 122, 120, EOP>>,                     \* wzx: bad direction
      <<SOP, DIR_RESP, CMD_GET_BUFFER_LENGTH, COMMA, 50, CHECKSUM, 102, 102, EOP>>, \* wrl,2*ff
      <<120, DIR_RESP, CMD_GET_BUFFER_LENGTH, EOP>>,   \* xrl: no SOP
      <<SOP, DIR_CMD, CHECKSUM, 101, 55, EOP>> }  \* wc*e7: checksum of "wc" and no code

\* Lines with a well-formed SOP and direction and a code that is not known
UnknownCodeLines ==
    { <<SOP, DIR_RESP, 63, EOP>> }                \* wr?

\* The same sentence under the other terminators
OtherTerminators ==
    { <<SOP, DIR_CMD, CMD_GET_VERSION, CR>>, <<SOP, DIR_CMD, CMD_GET_VERSION, CR, EOP>> }

Lines == {g.wire : g \in GoodSentences} \cup BadLines \cup UnknownCodeLines
            \cup OtherTerminators

RECURSIVE Flatten(_)
Flatten(ls) == IF Len(ls) = 0 THEN <<>> ELSE Head(ls) \o Flatten(Tail(ls))

TextStreams == {Flatten(ls) : ls \in UNION {[1..n -> Lines] : n \in 1..MaxLines}}

\* N bytes "A", with at most one of them replaced by a special byte
Payloads(n, specials) ==
    {[i \in 1..n |-> 65]} \cup
    {[i \in 1..n |-> IF i = k THEN b ELSE 65] : k \in 1..n, b \in specials}

\* queue_packet / got_packet sentences 'w<dir><q|p>,<N>,<payload>'
Binary(direction, cmd, payload) ==
    Text(cmd, direction, <<format_int(Len(payload)), payload>>, FALSE)

BinarySentences(specials) ==
    {Binary(dc[1], dc[2], pl) :
        dc \in {<<DIR_CMD, CMD_QUEUE_PACKET>>, <<DIR_RESP, RESP_GOT_PACKET>>},
        pl \in UNION {Payloads(n, specials) : n \in 1..MaxPayloadLen}}

BinaryStreams == {b.wire : b \in BinarySentences({EOP, CR})}

----------------------------------------------------------------------------
(* Streaming-parser runs: a stream reaches the device byte by byte, in any    *)
(* interleaving with the caller's get_packet calls                           *)

\* Returned by get_data_packet: a payload, or None
Data(bytes) == [some |-> TRUE, bytes |-> bytes]

NoData == [some |-> FALSE, bytes |-> <<>>]

\* What an API call hands back: kind says what value is (None, bool, int,
\* list, dict, sentence), or that value is the error raised
Returned(kind, value) == [kind |-> kind, value |-> value]

NoReturn == Returned("pending", 0)

\* The arguments of a call that takes none
NoArgs == <<>>

ClientInit ==
    /\ in_buf = <<>>
    /\ out_buf = <<>>
    /\ _buffer = <<>>
    /\ _holdoff = 0
    /\ _rx_queue = <<>>
    /\ payload_size = -1
    /\ pc = "idle"
    /\ awaited = 0
    /\ result = None
    /\ ret_data = NoData
    /\ delivered = <<>>
    /\ ops = 0
    /\ call = "none"
    /\ args = NoArgs
    /\ ret = NoReturn

NoHistory ==
    /\ emitted = <<>>
    /\ emitted_at = <<>>
    /\ partial = FALSE

\* No datagram socket is attached and no simulator stands in for the modem
NoSocket ==
    /\ sock_tx_queue = <<>>
    /\ sock_rx_queue = <<>>
    /\ _tx_buf = <<>>
    /\ _rx_buf = <<>>
    /\ worker = "none"
    /\ run_event = FALSE
    /\ tx_max = 0
    /\ rx_max = 0
    /\ tx_queue = <<>>
    /\ sent = 0
    /\ _link_up_time = 0
    /\ _next_packet_time = 0
    /\ _link_up_duration = 0
    /\ _next_packet_duration = 0
    /\ since_delivery = 1
    /\ since_configure = 1
    /\ flushed = 0
    /\ accepted = <<>>
    /\ received = <<>>
    /\ queued = <<>>

InitParser ==
    /\ ClientInit
    /\ NoHistory
    /\ NoSocket
    /\ msg = None
    /\ use_checksum = FALSE
    /\ stream \in TextStreams \cup BinaryStreams
    /\ fed = 0

\* MockIODev.feed: the next byte of the stream arrives
Feed ==
    /\ fed < Len(stream)
    /\ in_buf' = Append(in_buf, stream[fed + 1])
    /\ fed' = fed + 1
    /\ UNCHANGED <<commandVars, udpVars, out_buf, parserVars, _rx_queue, payload_size, callerVars,
                   codecVars, stream, historyVars>>

\* What one get_packet call adds to the history of the run
Record(o) ==
    /\ emitted' = IF o.result.kind = "none" THEN emitted
                  ELSE Append(emitted, o.result)
    /\ emitted_at' = IF o.result.kind = "none" THEN emitted_at
                     ELSE Append(emitted_at, fed - Len(o.in_buf))
    /\ partial' = (partial \/ (o.result.kind = "none" /\ o._buffer # <<>>))

\* The caller runs get_packet on whatever has arrived
GetPacket ==
    LET o == get_packet(in_buf, _buffer, _holdoff)
    IN  /\ in_buf' = o.in_buf
        /\ _buffer' = o._buffer
        /\ _holdoff' = o._holdoff
        /\ result' = o.result
        /\ Record(o)
        /\ UNCHANGED <<commandVars, udpVars, out_buf, _rx_queue, payload_size, pc, awaited, ret_data,
                       delivered, ops, codecVars, streamVars>>

NextParser == Feed \/ GetPacket

SpecParser == InitParser /\ [][NextParser]_vars

\* The run in which the whole stream is available from the start: get_packet
\* is called until the device is empty
RECURSIVE ParseAllFrom(_, _, _, _)
ParseAllFrom(inb, buf, hold, acc) ==
    LET o == get_packet(inb, buf, hold)
        acc1 == IF o.result.kind = "none" THEN acc ELSE Append(acc, o.result)
    IN  IF Len(o.in_buf) = 0 THEN acc1
        ELSE ParseAllFrom(o.in_buf, o._buffer, o._holdoff, acc1)

\* tabulated over the streams of InitParser
ParseAll == [s \in TextStreams \cup BinaryStreams |-> ParseAllFrom(s, <<>>, 0, <<>>)]

IsPrefix(s, t) == Len(s) <= Len(t) /\ SubSeq(t, 1, Len(s)) = s

AllRead == fed = Len(stream) /\ in_buf = <<>>

----------------------------------------------------------------------------
(* Terminator runs: well-formed sentences and blank lines, each ended by LF,  *)
(* CR or CRLF, read by get_packet as in SpecParser                           *)

Terminators == {<<EOP>>, <<CR>>, <<CR, EOP>>}

\* A line without content: its terminator arrives while the buffer is empty
BlankLine == [wire |-> <<EOP>>, sentence |-> None]

\* wcv, wrp,2,<LF><CR> (terminator bytes inside the payload), and the blank line
TerminatedLines ==
    {g \in GoodSentences : g.sentence.cmd \in {CMD_GET_VERSION, RESP_GOT_PACKET}}
        \cup {BlankLine}

\* The wire form of a line without its EOP
Body(g) == SubSeq(g.wire, 1, Len(g.wire) - 1)

RECURSIVE SentencesOf(_)
SentencesOf(gs) ==
    IF Len(gs) = 0 THEN <<>>
    ELSE (IF Head(gs).sentence.kind = "sentence" THEN <<Head(gs).sentence>> ELSE <<>>)
             \o SentencesOf(Tail(gs))

\* A sequence of lines under a choice of terminators: its bytes, the bytes of
\* the same lines ended by LF, and the sentences in it
TerminatedRuns ==
    UNION { { [wire |-> Flatten([i \in 1..n |-> Body(gs[i]) \o ts[i]]),
               lf_wire |-> Flatten([i \in 1..n |-> gs[i].wire]),
               sentences |-> SentencesOf(gs)] :
              gs \in [1..n -> TerminatedLines], ts \in [1..n -> Terminators] } :
            n \in 1..MaxLines }

InitTerminators ==
    /\ ClientInit
    /\ NoHistory
    /\ NoSocket
    /\ msg = None
    /\ use_checksum = FALSE
    /\ stream \in {r.wire : r \in TerminatedRuns}
    /\ fed = 0

SpecTerminators == InitTerminators /\ [][NextParser]_vars

\* C12: on a stream of sentences and blank lines ended by LF, CR or CRLF, no
\* error is ever emitted, and once the stream has been read the sentences
\* emitted are those of the same lines ended by LF: the sentences of the
\* stream in order, nothing for the blank lines and the extra CR or LF bytes.
C12_TerminatorsInterchangeable ==
    /\ \A j \in 1..Len(emitted) : emitted[j].kind = "sentence"
    /\ AllRead =>
         \A r \in TerminatedRuns :
            stream = r.wire =>
                /\ emitted = ParseAllFrom(r.lf_wire, <<>>, 0, <<>>)
                /\ emitted = r.sentences

C12_Witness ==
    /\ AllRead
    /\ Len(emitted) = 2
    /\ \E i \in 1..(Len(stream) - 2) :
          stream[i] = CR /\ stream[i + 1] = EOP /\ stream[i + 2] = SOP
    /\ stream[Len(stream)] = CR

----------------------------------------------------------------------------
(* Codec runs: a sentence is encoded by do_frame, then the wire bytes without *)
(* the EOP are decoded by parse                                              *)

\* Option lists of the non-binary sentences: None, or comma-free ASCII fields
TextOptions ==
    { <<>>, <<<<49>>>>, <<<<97>>, <<52>>>>, <<<<49>>, <<48>>, <<49>>>>,
      <<<<110>>, <<49>>, <<50>>, <<51, 46, 53>>>> }

CodecInputs ==
    { Text(c, d, o, FALSE).sentence :
        c \in ALL_VALID \ {CMD_QUEUE_PACKET, RESP_GOT_PACKET},
        d \in {DIR_CMD, DIR_RESP}, o \in TextOptions }
    \cup
    { Text(c, d, <<format_int(Len(pl)), pl>>, FALSE).sentence :
        c \in {CMD_QUEUE_PACKET, RESP_GOT_PACKET}, d \in {DIR_CMD, DIR_RESP},
        pl \in UNION {Payloads(n, {EOP, COMMA, CHECKSUM}) : n \in 0..MaxPayloadLen} }

InitCodec ==
    /\ ClientInit
    /\ NoHistory
    /\ NoSocket
    /\ msg \in CodecInputs
    /\ use_checksum \in BOOLEAN
    /\ stream = <<>>
    /\ fed = 0

\* do_frame(cmd, direction, options, checksum)
Encode ==
    /\ pc = "idle"
    /\ stream' = do_frame(msg.cmd, msg.dir, msg.has_options, msg.options, use_checksum)
    /\ pc' = "encoded"
    /\ UNCHANGED <<commandVars, udpVars, deviceVars, parserVars, _rx_queue, payload_size, awaited, result,
                   ret_data, delivered, ops, codecVars, fed, historyVars>>

\* parse(sentence), the EOP stripped
Decode ==
    /\ pc = "encoded"
    /\ result' = parse(SubSeq(stream, 1, Len(stream) - 1))
    /\ pc' = "decoded"
    /\ UNCHANGED <<commandVars, udpVars, deviceVars, parserVars, _rx_queue, payload_size, awaited,
                   ret_data, delivered, ops, codecVars, streamVars, historyVars>>

NextCodec == Encode \/ Decode

SpecCodec == InitCodec /\ [][NextCodec]_vars

\* C7: decoding the encoded sentence gives back direction, code and options,
\* with and without checksum, for every valid sentence.
C7_RoundTrip == pc = "decoded" => result = msg

\* C8: a queue_packet / got_packet sentence sent without checksum whose payload
\* has '*' as its third-from-last byte decodes to [N, payload], payload intact.
C8_SigilInPayload ==
    ( /\ pc = "decoded"
      /\ ~use_checksum
      /\ msg.cmd \in {CMD_QUEUE_PACKET, RESP_GOT_PACKET}
      /\ Len(msg.options[2]) >= 3
      /\ msg.options[2][Len(msg.options[2]) - 2] = CHECKSUM )
    => ( /\ result.kind = "sentence"
         /\ result.options = msg.options )

----------------------------------------------------------------------------
(* Modem client runs: the caller issues commands and get_data_packet calls    *)
(* while the device delivers a stream of sentences byte by byte              *)

MaxClientLines == 2  \* sentences the device delivers in a run
MaxOps == 2          \* calls the caller starts in a run

PacketA == Binary(DIR_RESP, RESP_GOT_PACKET, <<65>>)
PacketB == Binary(DIR_RESP, RESP_GOT_PACKET, <<66>>)

ClientLines ==
    { PacketA.wire, PacketB.wire,
      Text(CMD_GET_BUFFER_LENGTH, DIR_RESP, <<<<50>>>>, FALSE).wire,  \* wrl,2
      <<SOP, 122, 120, EOP>> }                                        \* wzx

ClientStreams ==
    {Flatten(ls) : ls \in UNION {[1..n -> ClientLines] : n \in 1..MaxClientLines}}

InitClient ==
    /\ ClientInit
    /\ NoHistory
    /\ NoSocket
    /\ msg = None
    /\ use_checksum = FALSE
    /\ stream \in ClientStreams
    /\ fed = 0

\* A wait_sentence that keeps every sentence it does not return
wait_sentence_queues_all(m, resp_id, queue) ==
    IF m.cmd = resp_id THEN [done |-> TRUE, queue |-> queue]
    ELSE [done |-> FALSE, queue |-> Append(queue, m)]

\* A wait_sentence that takes sentences of the response direction only
wait_sentence_on_responses(m, resp_id, queue) ==
    IF m.dir # DIR_RESP THEN [done |-> FALSE, queue |-> queue]
    ELSE IF m.cmd = resp_id THEN [done |-> TRUE, queue |-> queue]
    ELSE IF m.cmd = RESP_GOT_PACKET THEN [done |-> FALSE, queue |-> Append(queue, m)]
    ELSE [done |-> FALSE, queue |-> queue]

\* wait_sentence, on a sentence: return it, queue it, or drop it
wait_sentence_drops_packets(m, resp_id, queue) ==
    [done |-> m.cmd = resp_id, queue |-> queue]

wait_sentence_on(m, resp_id, queue) ==
    IF m.cmd = resp_id THEN [done |-> TRUE, queue |-> queue]
    ELSE IF m.cmd = RESP_GOT_PACKET THEN [done |-> FALSE, queue |-> Append(queue, m)]
    ELSE [done |-> FALSE, queue |-> queue]

is_ack(ch) == ch = <<97>>

\* [int(x) for x in pkt.options]
version_of(pkt) ==
    IF ~pkt.has_options THEN Returned("raise", "TypeError")
    ELSE IF \E i \in 1..Len(pkt.options) : ~int(pkt.options[i]).ok
    THEN Returned("raise", "ValueError")
    ELSE Returned("list", [i \in 1..Len(pkt.options) |-> int(pkt.options[i]).value])

\* int(pkt.options[0])
int_of_option(pkt) ==
    IF ~pkt.has_options THEN Returned("raise", "TypeError")
    ELSE IF ~int(pkt.options[1]).ok THEN Returned("raise", "ValueError")
    ELSE Returned("int", int(pkt.options[1]).value)

\* is_ack(pkt.options[0])
ack_of_option(pkt) ==
    IF ~pkt.has_options THEN Returned("raise", "TypeError")
    ELSE Returned("bool", is_ack(pkt.options[1]))

\* What a call does with the value wait_sentence returns (a sentence, or None
\* at the deadline): ret is what the call returns or raises; again says that
\* connect goes on to ask for the payload size; payload_size is the value the
\* client holds afterwards
Done(value, size) == [ret |-> value, again |-> FALSE, payload_size |-> size]

\* connect that takes any version
connect_any_version(pkt, resp_id, size) ==
    LET timeout == pkt.kind # "sentence"
        version == IF timeout THEN Returned("None", 0) ELSE version_of(pkt)
        payload == IF timeout THEN Returned("int", 0) ELSE int_of_option(pkt)
    IN  IF resp_id = CMD_GET_VERSION
        THEN IF version.kind = "raise" THEN Done(version, size)
             ELSE IF version.kind = "None" THEN Done(Returned("bool", FALSE), size)
             ELSE [ret |-> NoReturn, again |-> TRUE, payload_size |-> size]
        ELSE IF payload.kind = "raise" THEN Done(payload, size)
             ELSE IF payload.value = 0 THEN Done(Returned("bool", FALSE), size)
             ELSE Done(Returned("bool", TRUE), payload.value)

\* connect: after cmd_get_version, after cmd_get_payload_size
connect_finish(pkt, resp_id, size) ==
    LET timeout == pkt.kind # "sentence"
        version == IF timeout THEN Returned("None", 0) ELSE version_of(pkt)
        payload == IF timeout THEN Returned("int", 0) ELSE int_of_option(pkt)
    IN  IF resp_id = CMD_GET_VERSION
        THEN IF version.kind = "raise" THEN Done(version, size)
             ELSE IF version.kind = "None" THEN Done(Returned("bool", FALSE), size)
             ELSE IF version.value[1] # 1 THEN Done(Returned("bool", FALSE), size)
             ELSE [ret |-> NoReturn, again |-> TRUE, payload_size |-> size]
        ELSE IF payload.kind = "raise" THEN Done(payload, size)
             ELSE IF payload.value = 0 THEN Done(Returned("bool", FALSE), size)
             ELSE Done(Returned("bool", TRUE), payload.value)

\* float(b) for the forms digits and digits.digits: the value times 10 to the
\* number of decimals, and that number; ok = FALSE stands for ValueError
float(b) ==
    LET s == strip(b)
        dot == find(s, 46)
        whole == IF dot = 0 THEN s ELSE SubSeq(s, 1, dot - 1)
        decimals == IF dot = 0 THEN <<>> ELSE SubSeq(s, dot + 1, Len(s))
        wellformed ==
            /\ Len(whole) + Len(decimals) > 0
            /\ \A i \in 1..Len(whole) : whole[i] \in 48..57
            /\ \A i \in 1..Len(decimals) : decimals[i] \in 48..57
    IN  IF ~wellformed THEN [ok |-> FALSE, value |-> <<0, 0>>]
        ELSE [ok |-> TRUE, value |-> <<digits_value(whole \o decimals, 0), Len(decimals)>>]

\* the dict cmd_get_diagnostic builds
diagnostic_of(pkt) ==
    IF ~pkt.has_options THEN Returned("raise", "TypeError")
    ELSE IF Len(pkt.options) < 2 THEN Returned("raise", "IndexError")
    ELSE IF ~int(pkt.options[2]).ok THEN Returned("raise", "ValueError")
    ELSE IF Len(pkt.options) < 3 THEN Returned("raise", "IndexError")
    ELSE IF ~int(pkt.options[3]).ok THEN Returned("raise", "ValueError")
    ELSE IF Len(pkt.options) < 4 THEN Returned("raise", "IndexError")
    ELSE IF ~float(pkt.options[4]).ok THEN Returned("raise", "ValueError")
    ELSE Returned("dict", [link_up |-> pkt.options[1] = <<121>>,
                           pkt_cnt |-> int(pkt.options[2]).value,
                           pkt_loss_cnt |-> int(pkt.options[3]).value,
                           bit_error_rate |-> float(pkt.options[4]).value])

Finish(c, pkt, resp_id, size) ==
    LET timeout == pkt.kind # "sentence"
    IN  CASE c = "connect" -> connect_finish(pkt, resp_id, size)
          [] c = "cmd_get_version" ->
                Done(IF timeout THEN Returned("None", 0) ELSE version_of(pkt), size)
          [] c = "cmd_get_payload_size" ->
                Done(IF timeout THEN Returned("int", 0) ELSE int_of_option(pkt), size)
          [] c = "cmd_get_queue_length" ->
                Done(IF timeout THEN Returned("int", 0 - 1) ELSE int_of_option(pkt), size)
          [] c \in {"cmd_queue_packet", "cmd_configure", "cmd_flush_queue"} ->
                Done(IF timeout THEN Returned("bool", FALSE) ELSE ack_of_option(pkt), size)
          [] c = "cmd_get_diagnostic" ->
                Done(IF timeout THEN Returned("dict", <<>>) ELSE diagnostic_of(pkt), size)
          [] c = "get_data_packet" ->
                Done(IF timeout THEN Returned("None", 0)
                     ELSE Returned("bytes", pkt.options[2]), size)
          [] OTHER ->
                Done(IF timeout THEN Returned("None", 0) ELSE Returned("sentence", pkt), size)

\* request: write the command, then wait_sentence(cmd_id)
Request(cmd_id) ==
    /\ pc = "idle"
    /\ ops < MaxOps
    /\ out_buf' = out_buf \o do_frame(cmd_id, DIR_CMD, FALSE, <<>>, FALSE)
    /\ pc' = "wait"
    /\ awaited' = cmd_id
    /\ ops' = ops + 1
    /\ call' = "request"
    /\ ret' = NoReturn
    /\ args' = NoArgs
    /\ UNCHANGED <<udpVars, in_buf, parserVars, _rx_queue, payload_size, result, ret_data,
                   delivered, codecVars, streamVars, historyVars>>

\* One turn of the wait_sentence loop before the deadline: a get_packet call;
\* an error raised by get_packet ends the call that waits
Poll ==
    /\ pc = "wait"
    /\ LET o == get_packet(in_buf, _buffer, _holdoff)
           w == wait_sentence_on(o.result, awaited, _rx_queue)
           f == Finish(call, o.result, awaited, payload_size)
       IN  /\ in_buf' = o.in_buf
           /\ _buffer' = o._buffer
           /\ _holdoff' = o._holdoff
           /\ Record(o)
           /\ IF o.result.kind = "none"
              THEN UNCHANGED <<pc, result, _rx_queue, ret_data, delivered, out_buf,
                               payload_size, awaited, ret>>
              ELSE IF o.result.kind # "sentence"
              THEN /\ pc' = "idle"
                   /\ result' = o.result
                   /\ ret' = Returned("raise", o.result.kind)
                   /\ UNCHANGED <<_rx_queue, ret_data, delivered, out_buf, payload_size,
                                  awaited>>
              ELSE IF ~w.done
              THEN /\ _rx_queue' = w.queue
                   /\ UNCHANGED <<pc, result, ret_data, delivered, out_buf, payload_size,
                                  awaited, ret>>
              ELSE /\ _rx_queue' = w.queue
                   /\ result' = o.result
                   /\ ret_data' = IF awaited = RESP_GOT_PACKET
                                  THEN Data(o.result.options[2]) ELSE ret_data
                   /\ delivered' = IF awaited = RESP_GOT_PACKET
                                   THEN Append(delivered, o.result.options[2])
                                   ELSE delivered
                   /\ ret' = f.ret
                   /\ payload_size' = f.payload_size
                   /\ pc' = IF f.again THEN "wait" ELSE "idle"
                   /\ awaited' = IF f.again THEN CMD_GET_PAYLOAD_SIZE ELSE awaited
                   /\ out_buf' = IF f.again
                                 THEN out_buf \o do_frame(CMD_GET_PAYLOAD_SIZE, DIR_CMD,
                                                          FALSE, <<>>, FALSE)
                                 ELSE out_buf
    /\ UNCHANGED <<udpVars, call, args, ops, codecVars, streamVars>>

\* A deadline that raises instead of returning None
TimeoutRaises ==
    /\ pc = "wait"
    /\ pc' = "idle"
    /\ result' = None
    /\ ret_data' = IF awaited = RESP_GOT_PACKET THEN NoData ELSE ret_data
    /\ ret' = Returned("raise", "timeout")
    /\ UNCHANGED <<udpVars, deviceVars, parserVars, _rx_queue, payload_size, awaited,
                   delivered, ops, call, args, codecVars, streamVars, historyVars>>

\* The deadline of wait_sentence passes: it returns None
Timeout ==
    /\ pc = "wait"
    /\ pc' = "idle"
    /\ result' = None
    /\ ret_data' = IF awaited = RESP_GOT_PACKET THEN NoData ELSE ret_data
    /\ ret' = Finish(call, None, awaited, payload_size).ret
    /\ UNCHANGED <<udpVars, deviceVars, parserVars, _rx_queue, payload_size, awaited,
                   delivered, ops, call, args, codecVars, streamVars, historyVars>>

\* get_data_packet takes the oldest queued sentence
pending_pop_newest(queue) ==
    [pkt |-> queue[Len(queue)], queue |-> SubSeq(queue, 1, Len(queue) - 1)]

pending_pop(queue) == [pkt |-> Head(queue), queue |-> Tail(queue)]

\* A get_data_packet(0) that returns None when get_packet raises
get_data_now_no_raise(pkt) ==
    IF pkt.kind = "sentence" /\ pkt.cmd = RESP_GOT_PACKET
    THEN Returned("bytes", pkt.options[2])
    ELSE Returned("None", 0)

\* get_data_packet(0) with nothing queued: what it returns for the outcome pkt of
\* its get_packet call (an error raised by get_packet is raised to the caller)
get_data_now(pkt) ==
    IF pkt.kind = "sentence" /\ pkt.cmd = RESP_GOT_PACKET
    THEN Returned("bytes", pkt.options[2])
    ELSE IF pkt.kind \in {"none", "sentence"} THEN Returned("None", 0)
    ELSE Returned("raise", pkt.kind)

\* get_data_packet(timeout): from the queue, else by wait_sentence (timeout > 0),
\* else by one get_packet call (timeout = 0)
GetDataPacket(blocking) ==
    /\ pc = "idle"
    /\ ops < MaxOps
    /\ ops' = ops + 1
    /\ IF Len(_rx_queue) > 0
       THEN /\ _rx_queue' = pending_pop(_rx_queue).queue
            /\ ret_data' = Data(pending_pop(_rx_queue).pkt.options[2])
            /\ delivered' = Append(delivered, pending_pop(_rx_queue).pkt.options[2])
            /\ ret' = Returned("bytes", pending_pop(_rx_queue).pkt.options[2])
            /\ UNCHANGED <<in_buf, parserVars, pc, awaited, result, historyVars>>
       ELSE IF blocking
       THEN /\ pc' = "wait"
            /\ awaited' = RESP_GOT_PACKET
            /\ ret' = NoReturn
            /\ UNCHANGED <<in_buf, parserVars, _rx_queue, result, ret_data,
                           delivered, historyVars>>
       ELSE LET o == get_packet(in_buf, _buffer, _holdoff)
                got == o.result.kind = "sentence" /\ o.result.cmd = RESP_GOT_PACKET
            IN  /\ in_buf' = o.in_buf
                /\ _buffer' = o._buffer
                /\ _holdoff' = o._holdoff
                /\ Record(o)
                /\ awaited' = RESP_GOT_PACKET
                /\ result' = o.result
                /\ ret_data' = IF got THEN Data(o.result.options[2]) ELSE NoData
                /\ delivered' = IF got THEN Append(delivered, o.result.options[2])
                                ELSE delivered
                /\ ret' = get_data_now(o.result)
                /\ UNCHANGED <<pc, _rx_queue>>
    /\ call' = "get_data_packet"
    /\ args' = [timeout |-> IF blocking THEN 1 ELSE 0]
    /\ UNCHANGED <<udpVars, out_buf, payload_size, codecVars, streamVars>>

NextClient ==
    \/ Feed
    \/ Request(CMD_GET_BUFFER_LENGTH)
    \/ Poll
    \/ Timeout
    \/ \E blocking \in BOOLEAN : GetDataPacket(blocking)

SpecClient == InitClient /\ [][NextClient]_vars

----------------------------------------------------------------------------
(* Command runs: the caller makes the calls of the public API while the       *)
(* device delivers whole lines (MockIODev.feed of one line at a time)         *)

\* MockIODev.feed: the next line of the stream arrives in one piece
FeedLine ==
    /\ fed < Len(stream)
    /\ LET n == find(SubSeq(stream, fed + 1, Len(stream)), EOP)
       IN  /\ in_buf' = in_buf \o SubSeq(stream, fed + 1, fed + n)
           /\ fed' = fed + n
    /\ UNCHANGED <<commandVars, udpVars, out_buf, parserVars, _rx_queue, payload_size,
                   callerVars, codecVars, stream, historyVars>>

\* A call that writes its command and goes into wait_sentence
StartWait(c, a, cmd_id, written) ==
    /\ out_buf' = out_buf \o written
    /\ pc' = "wait"
    /\ awaited' = cmd_id
    /\ call' = c
    /\ args' = a
    /\ ret' = NoReturn
    /\ ops' = ops + 1
    /\ UNCHANGED <<udpVars, in_buf, parserVars, _rx_queue, payload_size, result, ret_data,
                   delivered, codecVars, streamVars, historyVars>>

\* A call that raises before it has done anything
RaiseAtOnce(c, a, error) ==
    /\ call' = c
    /\ args' = a
    /\ ret' = Returned("raise", error)
    /\ ops' = ops + 1
    /\ UNCHANGED <<udpVars, deviceVars, parserVars, _rx_queue, payload_size, pc, awaited,
                   result, ret_data, delivered, codecVars, streamVars, historyVars>>

\* connect: send_reset, then cmd_get_version (cmd_get_payload_size follows in
\* Poll when the version has been accepted)
Connect ==
    /\ pc = "idle"
    /\ ops < MaxOps
    /\ StartWait("connect", NoArgs, CMD_GET_VERSION,
                 <<EOP>> \o do_frame(CMD_GET_VERSION, DIR_CMD, FALSE, <<>>, FALSE))

\* cmd_get_version, cmd_get_payload_size, cmd_get_queue_length, cmd_flush_queue,
\* cmd_get_diagnostic: request(cmd_id) and a conversion of the response
CommandCodes ==
    [cmd_get_version |-> CMD_GET_VERSION, cmd_get_payload_size |-> CMD_GET_PAYLOAD_SIZE,
     cmd_get_queue_length |-> CMD_GET_BUFFER_LENGTH, cmd_flush_queue |-> CMD_FLUSH,
     cmd_get_diagnostic |-> CMD_GET_DIAGNOSTIC]

Command(c) ==
    /\ pc = "idle"
    /\ ops < MaxOps
    /\ StartWait(c, NoArgs, CommandCodes[c], do_frame(CommandCodes[c], DIR_CMD, FALSE, <<>>, FALSE))

\* cmd_queue_packet(data): data is a byte string (is_bytes) or a str
cmd_queue_packet_any_length(size, data) == size < 1 \/ ~data.is_bytes

cmd_queue_packet_raises(size, data) ==
    size < 1 \/ ~data.is_bytes \/ Len(data.bytes) # size

CmdQueuePacket(data) ==
    /\ pc = "idle"
    /\ ops < MaxOps
    /\ IF cmd_queue_packet_raises(payload_size, data)
       THEN RaiseAtOnce("cmd_queue_packet", [data |-> data], "generic_error")
       ELSE StartWait("cmd_queue_packet", [data |-> data], CMD_QUEUE_PACKET,
                      do_frame(CMD_QUEUE_PACKET, DIR_CMD, TRUE,
                               <<format_int(payload_size), data.bytes>>, FALSE))

\* cmd_configure(role, channel): only the channel is looked at
cmd_configure_raises(role, channel) == channel < 1 \/ channel > 7

CmdConfigure(role, channel) ==
    /\ pc = "idle"
    /\ ops < MaxOps
    /\ IF cmd_configure_raises(role, channel)
       THEN RaiseAtOnce("cmd_configure", [role |-> role, channel |-> channel],
                        "generic_error")
       ELSE StartWait("cmd_configure", [role |-> role, channel |-> channel],
                      CMD_SET_SETTINGS,
                      do_frame(CMD_SET_SETTINGS, DIR_CMD, TRUE,
                               <<role, format_int(channel)>>, FALSE))

\* What the modem may answer to a connect: version 1.0.1 and a payload size
\* (8, 4, 0, -5), version 1.0.1 alone, version 2.0.1, or a malformed line
VersionReply(major) ==
    Text(CMD_GET_VERSION, DIR_RESP, <<<<48 + major>>, <<48>>, <<49>>>>, FALSE).wire

SizeReply(size) == Text(CMD_GET_PAYLOAD_SIZE, DIR_RESP, <<size>>, FALSE).wire

ConnectReplies ==
    {VersionReply(1) \o SizeReply(n) : n \in {<<56>>, <<52>>, <<48>>, <<45, 53>>}}
        \cup {VersionReply(1), VersionReply(2), <<SOP, 122, 120, EOP>>}

ConnectStreams ==
    {Flatten(ls) : ls \in UNION {[1..n -> ConnectReplies] : n \in 1..MaxClientLines}}

InitConnect ==
    /\ ClientInit
    /\ NoHistory
    /\ NoSocket
    /\ msg = None
    /\ use_checksum = FALSE
    /\ stream \in ConnectStreams
    /\ fed = 0

NextConnect ==
    \/ FeedLine
    \/ Connect
    \/ Command("cmd_get_queue_length")
    \/ Poll
    \/ Timeout

SpecConnect == InitConnect /\ [][NextConnect]_vars

----------------------------------------------------------------------------
(* Argument checks: cmd_queue_packet and cmd_configure against a modem that   *)
(* acknowledges or refuses                                                    *)

\* A client whose payload_size is size (-1 after construction, or set by the
\* caller "faking that we are connected") and a device that will deliver one
\* of the streams
InitCalls(sizes, streams) ==
    /\ in_buf = <<>>
    /\ out_buf = <<>>
    /\ _buffer = <<>>
    /\ _holdoff = 0
    /\ _rx_queue = <<>>
    /\ payload_size \in sizes
    /\ pc = "idle"
    /\ awaited = 0
    /\ result = None
    /\ ret_data = NoData
    /\ delivered = <<>>
    /\ ops = 0
    /\ call = "none"
    /\ args = NoArgs
    /\ ret = NoReturn
    /\ NoHistory
    /\ NoSocket
    /\ msg = None
    /\ use_checksum = FALSE
    /\ stream \in streams
    /\ fed = 0

StreamsOf(lines) ==
    {Flatten(ls) : ls \in UNION {[1..n -> lines] : n \in 1..MaxClientLines}}

Reply(cmd, answer) == Text(cmd, DIR_RESP, <<answer>>, FALSE).wire

\* The arguments given to cmd_queue_packet: bytes of the payload size, shorter,
\* longer, and a str
QueueData ==
    {[is_bytes |-> TRUE, bytes |-> <<65, 66>>], [is_bytes |-> TRUE, bytes |-> <<65>>],
     [is_bytes |-> TRUE, bytes |-> <<65, 66, 67>>], [is_bytes |-> FALSE, bytes |-> <<65, 66>>]}

QueueReplies == {Reply(CMD_QUEUE_PACKET, <<97>>), Reply(CMD_QUEUE_PACKET, <<110>>)}

InitQueue == InitCalls({0 - 1, 0, 2}, StreamsOf(QueueReplies))

NextQueue ==
    \/ FeedLine
    \/ \E data \in QueueData : CmdQueuePacket(data)
    \/ Poll
    \/ Timeout

SpecQueue == InitQueue /\ [][NextQueue]_vars

\* The arguments given to cmd_configure
Roles == {<<97>>, <<98>>, <<99>>}

Channels == {0, 1, 7, 8}

ConfigureReplies == {Reply(CMD_SET_SETTINGS, <<97>>), Reply(CMD_SET_SETTINGS, <<110>>)}

InitConfigure == InitCalls({0 - 1}, StreamsOf(ConfigureReplies))

NextConfigure ==
    \/ FeedLine
    \/ \E role \in Roles, channel \in Channels : CmdConfigure(role, channel)
    \/ Poll
    \/ Timeout

SpecConfigure == InitConfigure /\ [][NextConfigure]_vars

----------------------------------------------------------------------------
(* Commands that get no answer: the device delivers nothing, or only lines    *)
(* that are not the awaited sentence                                          *)

\* b'wr?\n' (unknown code), b'wzx\n' (bad direction), b'wrl,2*ff\n' (bad checksum)
NoAnswerLines ==
    UnknownCodeLines \cup
    { <<SOP, 122, 120, EOP>>,
      <<SOP, DIR_RESP, CMD_GET_BUFFER_LENGTH, COMMA, 50, CHECKSUM, 102, 102, EOP>> }

InitNoAnswer == InitCalls({2}, StreamsOf(NoAnswerLines))

NextNoAnswer ==
    \/ FeedLine
    \/ \E c \in DOMAIN CommandCodes : Command(c)
    \/ CmdConfigure(<<97>>, 4)
    \/ CmdQueuePacket([is_bytes |-> TRUE, bytes |-> <<65, 66>>])
    \/ Poll
    \/ Timeout

SpecNoAnswer == InitNoAnswer /\ [][NextNoAnswer]_vars

----------------------------------------------------------------------------
(* Datagram framing (transport.py) *)

FRAME_END == 0

\* An encoding that leaves the bytes as they are
cobs_encode_none(in_bytes) == in_bytes

\* cobs.cobsr.encode: the for loop over the input
RECURSIVE encode_loop(_, _, _, _)
encode_loop(in_bytes, idx, search_start_idx, out_bytes) ==
    IF idx = Len(in_bytes)
    THEN [idx |-> idx, search_start_idx |-> search_start_idx, out_bytes |-> out_bytes]
    ELSE LET full == idx - search_start_idx = 254
             out1 == IF full
                     THEN out_bytes \o <<255>> \o SubSeq(in_bytes, search_start_idx + 1, idx)
                     ELSE out_bytes
             start1 == IF full THEN idx ELSE search_start_idx
         IN  IF in_bytes[idx + 1] = 0
             THEN encode_loop(in_bytes, idx + 1, idx + 1,
                              out1 \o <<idx - start1 + 1>> \o SubSeq(in_bytes, start1 + 1, idx))
             ELSE encode_loop(in_bytes, idx + 1, start1, out1)

\* cobs.cobsr.encode: the last block takes the final byte as its length code
\* when that byte is not smaller than the length
cobs_encode(in_bytes) ==
    LET l == encode_loop(in_bytes, 0, 0, <<>>)
        final_byte_value == IF Len(in_bytes) > 0 THEN in_bytes[Len(in_bytes)] ELSE 0
        length_value == l.idx - l.search_start_idx + 1
    IN  IF final_byte_value < length_value
        THEN l.out_bytes \o <<length_value>> \o SubSeq(in_bytes, l.search_start_idx + 1, l.idx)
        ELSE l.out_bytes \o <<final_byte_value>>
                 \o SubSeq(in_bytes, l.search_start_idx + 1, l.idx - 1)

\* cobs.cobsr.decode: the while loop, from the length code at idx (0-based)
RECURSIVE decode_loop(_, _, _)
decode_loop(in_bytes, idx, out_bytes) ==
    LET length == in_bytes[idx + 1]
        end == idx + length
        last == IF end < Len(in_bytes) THEN end ELSE Len(in_bytes)
        copy_bytes == SubSeq(in_bytes, idx + 2, last)
    IN  IF length = 0 \/ find(copy_bytes, 0) > 0
        THEN [ok |-> FALSE, out_bytes |-> <<>>]
        ELSE IF end > Len(in_bytes)
        THEN [ok |-> TRUE, out_bytes |-> out_bytes \o copy_bytes \o <<length>>]
        ELSE IF end < Len(in_bytes)
        THEN decode_loop(in_bytes, end,
                         out_bytes \o copy_bytes \o (IF length < 255 THEN <<0>> ELSE <<>>))
        ELSE [ok |-> TRUE, out_bytes |-> out_bytes \o copy_bytes]

cobs_decode(in_bytes) ==
    IF Len(in_bytes) > 0 THEN decode_loop(in_bytes, 0, <<>>)
    ELSE [ok |-> TRUE, out_bytes |-> <<>>]

\* A frame without the CRC byte
frame_no_crc(data) == Append(cobs_encode(data), FRAME_END)

frame(data) == Append(cobs_encode(Append(data, crc_func(data))), FRAME_END)

\* A padding of frame ends alone
pad_payload_zeros(data, size) ==
    data \o [i \in 1..(IF size > Len(data) THEN size - Len(data) ELSE 0) |-> FRAME_END]

RECURSIVE pad_payload(_, _)
pad_payload(data, size) ==
    LET left == size - Len(data)
    IN  IF left >= 2 THEN pad_payload(data \o <<1, FRAME_END>>, size)
        ELSE IF left = 1 THEN Append(data, FRAME_END)
        ELSE data

\* unframe: the data, None for a fill frame, False for a damaged frame
unframe(buffer) ==
    LET stripped == IF Len(buffer) > 0 /\ buffer[Len(buffer)] = 0
                    THEN SubSeq(buffer, 1, Len(buffer) - 1) ELSE buffer
        d == cobs_decode(stripped)
        decoded == d.out_bytes
        expected_crc == decoded[Len(decoded)]
        data == SubSeq(decoded, 1, Len(decoded) - 1)
    IN  IF ~d.ok THEN [kind |-> "False", data |-> <<>>]
        ELSE IF Len(decoded) = 0 THEN [kind |-> "None", data |-> <<>>]
        ELSE IF crc_func(data) # expected_crc THEN [kind |-> "False", data |-> <<>>]
        ELSE [kind |-> "data", data |-> data]

\* A _get_next_tx_packet that always leaves room for one byte of padding
_get_next_tx_packet_pads_early(tx_buf, size) ==
    LET n == IF Len(tx_buf) < size - 1 THEN Len(tx_buf) ELSE size - 1
    IN  [send |-> pad_payload(SubSeq(tx_buf, 1, n), size),
         _tx_buf |-> SubSeq(tx_buf, n + 1, Len(tx_buf))]

\* A _get_next_tx_packet that sends a short slice as it is
_get_next_tx_packet_unpadded(tx_buf, size) ==
    LET n == IF Len(tx_buf) < size THEN Len(tx_buf) ELSE size
    IN  [send |-> SubSeq(tx_buf, 1, n), _tx_buf |-> SubSeq(tx_buf, n + 1, Len(tx_buf))]

_get_next_tx_packet(tx_buf, size) ==
    LET n == IF Len(tx_buf) < size THEN Len(tx_buf) ELSE size
        send == SubSeq(tx_buf, 1, n)
    IN  [send |-> IF Len(send) < size THEN pad_payload(send, size) ELSE send,
         _tx_buf |-> SubSeq(tx_buf, n + 1, Len(tx_buf))]

_extract_frame_from_rx_buf(rx_buf) ==
    LET idx == find(rx_buf, FRAME_END)
    IN  [frame |-> SubSeq(rx_buf, 1, idx - 1),
         _rx_buf |-> SubSeq(rx_buf, idx + 1, Len(rx_buf))]

----------------------------------------------------------------------------
(* Datagram socket runs: a WlUDPSocket on a connected WlModemSimulator with   *)
(* durations (0, 0, 0), as in test_udp; the caller sends and receives while   *)
(* the worker thread loops over run_send and run_receive                     *)

MaxSends == 2  \* datagrams the caller sends in a run

desired_queue_length == 2

\* The payload size connect reads from the simulator's response
M64PayloadSize == int(<<56>>).value

\* Datagram lengths around the packet size: the frame is three bytes longer
\* than the datagram, so these are a frame well inside one packet, one byte
\* short of a packet, exactly one packet, one byte into a second packet,
\* exactly two packets, and one byte into a third packet
DatagramLens ==
    {1, M64PayloadSize - 4, M64PayloadSize - 3, M64PayloadSize - 2,
     2 * M64PayloadSize - 3, 2 * M64PayloadSize - 2}

\* Per length, a datagram with zero bytes in it and one of high bytes
Datagrams ==
    {[i \in 1..n |-> IF i % 3 = 0 THEN 0 ELSE 64 + i] : n \in DatagramLens} \cup
    {[i \in 1..n |-> 256 - i] : n \in DatagramLens}

\* The clock moves on by one step (a request sleeps before it answers); times
\* are kept relative to the clock, and all that is read of them is their sign
elapse(t) == IF t >= 0 THEN t - 1 ELSE t

\* The same step of the clock for the time since an event: all that is read
\* of it is whether it is more than the duration
later(t, duration) == IF t > duration THEN t ELSE t + 1

\* State after WlModemSimulator(0, 0, 0), connect() and WlUDPSocket(modem)
\* No call on the socket has returned yet (send returns a bool, stop nothing)
NoneYet == Returned("pending", FALSE)

\* The socket of WlUDPSocket(modem, tx_max, rx_max) on a connected simulator
SocketOn(tx_maxsizes, rx_maxsizes) ==
    /\ in_buf = <<>>
    /\ out_buf = <<EOP>>
    /\ _buffer = <<>>
    /\ _holdoff = 0
    /\ _rx_queue = <<>>
    /\ payload_size = M64PayloadSize
    /\ pc = "idle"
    /\ awaited = 0
    /\ result = None
    /\ ret_data = NoData
    /\ delivered = <<>>
    /\ ops = 0
    /\ call = "none"
    /\ args = NoArgs
    /\ ret = NoneYet
    /\ NoHistory
    /\ msg = None
    /\ use_checksum = FALSE
    /\ stream = <<>>
    /\ fed = 0
    /\ sock_tx_queue = <<>>
    /\ sock_rx_queue = <<>>
    /\ _tx_buf = <<>>
    /\ _rx_buf = <<>>
    /\ worker = "run_send"
    /\ run_event = TRUE
    /\ tx_max \in tx_maxsizes
    /\ rx_max \in rx_maxsizes
    /\ tx_queue = <<>>
    /\ sent = 0
    /\ _link_up_time = elapse(elapse(0))
    /\ _link_up_duration = 0
    /\ _next_packet_duration = 0
    /\ _next_packet_time = elapse(elapse(0 + 0))
    /\ since_delivery = 1
    /\ since_configure = 1
    /\ flushed = 0
    /\ accepted = <<>>
    /\ received = <<>>
    /\ queued = <<>>

\* The socket of WlUDPSocket(modem, tx_max=maxsize)
SocketWith(maxsizes) == SocketOn(maxsizes, {0})

InitSocket == SocketWith({0})

modemVars == <<deviceVars, parserVars, _rx_queue, payload_size, callerVars, commandVars,
               codecVars, streamVars, historyVars>>

\* A queue that is never full
put_nowait_no_limit(queue, maxsize, item) == [full |-> FALSE, queue |-> Append(queue, item)]

\* Queue.put(block=False) on a queue of the given maxsize (0: no limit)
put_nowait(queue, maxsize, item) ==
    IF maxsize > 0 /\ Len(queue) >= maxsize
    THEN [full |-> TRUE, queue |-> queue]
    ELSE [full |-> FALSE, queue |-> Append(queue, item)]

\* A send that frames the datagram into the staging buffer itself
SendToBuffer(d) ==
    /\ ops < MaxSends
    /\ ops' = ops + 1
    /\ call' = "send"
    /\ args' = [data |-> d]
    /\ _tx_buf' = _tx_buf \o frame(d)
    /\ accepted' = Append(accepted, d)
    /\ ret' = Returned("bool", TRUE)
    /\ UNCHANGED <<deviceVars, parserVars, _rx_queue, payload_size, pc, awaited, result,
                   ret_data, delivered, codecVars, streamVars, historyVars, controlVars,
                   sock_tx_queue, sock_rx_queue, _rx_buf, worker, simulatorVars, received,
                   queued>>

\* send(data): True unless the queue is full
Send(d) ==
    /\ ops < MaxSends
    /\ ops' = ops + 1
    /\ call' = "send"
    /\ args' = [data |-> d]
    /\ LET p == put_nowait(sock_tx_queue, tx_max, d)
       IN  /\ sock_tx_queue' = p.queue
           /\ accepted' = IF p.full THEN accepted ELSE Append(accepted, d)
           /\ ret' = Returned("bool", ~p.full)
    /\ UNCHANGED <<deviceVars, parserVars, _rx_queue, payload_size, pc, awaited, result,
                   ret_data, delivered, codecVars, streamVars, historyVars, controlVars,
                   sock_rx_queue, _tx_buf, _rx_buf, worker, simulatorVars, received,
                   queued>>

\* receive(): the oldest datagram, or None (nothing changes)
Receive ==
    /\ IF Len(sock_rx_queue) > 0
       THEN /\ received' = Append(received, Head(sock_rx_queue))
            /\ sock_rx_queue' = Tail(sock_rx_queue)
       ELSE UNCHANGED <<received, sock_rx_queue>>
    /\ UNCHANGED <<modemVars, controlVars, sock_tx_queue, _tx_buf, _rx_buf, worker, simulatorVars,
                   accepted, queued>>

\* A run_send that takes an unanswered query for a full queue
queue_is_low_answered(length) == 0 <= length /\ length < desired_queue_length

\* A run_send that queues a packet whatever the queue length is
queue_is_low_always(length) == TRUE

\* run_send: self.modem.cmd_get_queue_length() < self.desired_queue_length
queue_is_low(length) == length < desired_queue_length

\* A _fill_tx_buf that frames every datagram waiting in the queue
RECURSIVE _fill_tx_buf_all(_, _)
_fill_tx_buf_all(tx_buf, queue) ==
    IF Len(queue) > 0
    THEN _fill_tx_buf_all(tx_buf \o frame(Head(queue)), Tail(queue))
    ELSE [_tx_buf |-> tx_buf, queue |-> queue]

\* _fill_tx_buf: frame the next datagram, if there is one
_fill_tx_buf(tx_buf, queue) ==
    IF Len(queue) > 0
    THEN [_tx_buf |-> tx_buf \o frame(Head(queue)), queue |-> Tail(queue)]
    ELSE [_tx_buf |-> tx_buf, queue |-> queue]

\* run_send on the simulator: cmd_get_queue_length answers len(tx_queue) as
\* text, cmd_queue_packet appends the packet; each request takes time
RunSend ==
    /\ worker = "run_send"
    /\ run_event
    /\ LET length == int(format_int(Len(tx_queue))).value
           low == queue_is_low(length)
           f == IF low /\ Len(_tx_buf) < payload_size
                THEN _fill_tx_buf(_tx_buf, sock_tx_queue)
                ELSE [_tx_buf |-> _tx_buf, queue |-> sock_tx_queue]
           queues == low /\ Len(f._tx_buf) > 0
           n == _get_next_tx_packet(f._tx_buf, payload_size)
           raises == queues /\ (payload_size < 1 \/ Len(n.send) # payload_size)
       IN  /\ sock_tx_queue' = f.queue
           /\ _tx_buf' = IF queues THEN n._tx_buf ELSE f._tx_buf
           /\ tx_queue' = IF queues /\ ~raises THEN Append(tx_queue, n.send) ELSE tx_queue
           /\ queued' = IF queues /\ ~raises THEN Append(queued, n.send) ELSE queued
           /\ _link_up_time' = IF queues /\ ~raises THEN elapse(elapse(_link_up_time))
                               ELSE elapse(_link_up_time)
           /\ _next_packet_time' = IF queues /\ ~raises
                                   THEN elapse(elapse(_next_packet_time))
                                   ELSE elapse(_next_packet_time)
           /\ since_delivery' =
                  IF queues /\ ~raises
                  THEN later(later(since_delivery, _next_packet_duration), _next_packet_duration)
                  ELSE later(since_delivery, _next_packet_duration)
           /\ since_configure' =
                  IF queues /\ ~raises
                  THEN later(later(since_configure, _link_up_duration), _link_up_duration)
                  ELSE later(since_configure, _link_up_duration)
           /\ worker' = IF raises THEN "raised" ELSE "run_receive"
    /\ UNCHANGED <<modemVars, controlVars, sock_rx_queue, _rx_buf, sent, accepted, received,
                   _link_up_duration, _next_packet_duration, flushed>>

\* _is_link_up that takes the link to be up at the very instant _link_up_time
_is_link_up_at_instant(link_up_time) == link_up_time <= 0

\* _is_link_up: self._link_up_time < time.time()
_is_link_up(link_up_time) == link_up_time < 0

\* get_data_packet that does not look at _next_packet_time
sim_get_data_packet_no_spacing(queue, link_up_time, next_packet_time) ==
    IF Len(queue) > 0 /\ _is_link_up(link_up_time)
    THEN [pkt |-> Data(Head(queue)), tx_queue |-> Tail(queue),
          _next_packet_time |-> 0 + _next_packet_duration, popped |-> 1]
    ELSE [pkt |-> NoData, tx_queue |-> queue,
          _next_packet_time |-> next_packet_time, popped |-> 0]

\* WlModemSimulator.get_data_packet(0): the oldest queued packet, if the link
\* is up and the time of the next packet has passed
sim_get_data_packet(queue, link_up_time, next_packet_time) ==
    IF Len(queue) > 0 /\ _is_link_up(link_up_time) /\ next_packet_time < 0
    THEN [pkt |-> Data(Head(queue)), tx_queue |-> Tail(queue),
          _next_packet_time |-> 0 + _next_packet_duration, popped |-> 1]
    ELSE [pkt |-> NoData, tx_queue |-> queue,
          _next_packet_time |-> next_packet_time, popped |-> 0]

\* _fill_rx_buf that drops every datagram behind the first one in the queue
_fill_rx_buf_keeps_one(queue, data) ==
    IF Len(queue) > 0 THEN queue ELSE Append(queue, data)

\* _fill_rx_buf that makes room for the datagram by dropping the oldest one
_fill_rx_buf_drops_oldest(queue, data) ==
    IF rx_max > 0 /\ Len(queue) >= rx_max THEN Append(Tail(queue), data)
    ELSE Append(queue, data)

\* _fill_rx_buf that puts the datagram in front
_fill_rx_buf_in_front(queue, data) == <<data>> \o queue

\* _fill_rx_buf: queue the datagram, or drop it if the queue is full
_fill_rx_buf(queue, data) == put_nowait(queue, rx_max, data).queue

\* A run_receive that queues whatever data unframe returns, empty or not
RECURSIVE extract_frames_queues_empty(_, _)
extract_frames_queues_empty(rx_buf, queue) ==
    IF find(rx_buf, FRAME_END) = 0
    THEN [_rx_buf |-> rx_buf, queue |-> queue]
    ELSE LET e == _extract_frame_from_rx_buf(rx_buf)
             u == unframe(e.frame)
         IN  IF u.kind = "data"
             THEN extract_frames_queues_empty(e._rx_buf, _fill_rx_buf(queue, u.data))
             ELSE extract_frames_queues_empty(e._rx_buf, queue)

\* run_receive: the while loop that takes the frames out of _rx_buf
RECURSIVE extract_frames(_, _)
extract_frames(rx_buf, queue) ==
    IF find(rx_buf, FRAME_END) = 0
    THEN [_rx_buf |-> rx_buf, queue |-> queue]
    ELSE LET e == _extract_frame_from_rx_buf(rx_buf)
             u == unframe(e.frame)
         IN  IF u.kind = "data" /\ Len(u.data) > 0
             THEN extract_frames(e._rx_buf, _fill_rx_buf(queue, u.data))
             ELSE extract_frames(e._rx_buf, queue)

\* run_receive, and the sleep of the worker loop
RunReceive ==
    /\ worker = "run_receive"
    /\ LET g == sim_get_data_packet(tx_queue, _link_up_time, _next_packet_time)
           got == g.pkt.some /\ Len(g.pkt.bytes) > 0
           x == extract_frames(_rx_buf \o g.pkt.bytes, sock_rx_queue)
       IN  /\ tx_queue' = g.tx_queue
           /\ _next_packet_time' = g._next_packet_time
           /\ sent' = sent + g.popped
           /\ since_delivery' = IF g.popped = 1 THEN 0 ELSE since_delivery
           /\ _rx_buf' = IF got THEN x._rx_buf ELSE _rx_buf
           /\ sock_rx_queue' = IF got THEN x.queue ELSE sock_rx_queue
    /\ worker' = "run_send"
    /\ UNCHANGED <<modemVars, controlVars, sock_tx_queue, _tx_buf, _link_up_time, datagramVars,
                   _link_up_duration, _next_packet_duration, since_configure, flushed>>

NextSocket ==
    \/ \E d \in Datagrams : Send(d)
    \/ Receive
    \/ RunSend
    \/ RunReceive

SpecSocket == InitSocket /\ [][NextSocket]_vars

\* A step of the worker thread: it leaves run_send or run_receive
WorkerStep ==
    /\ worker \in {"run_send", "run_receive"}
    /\ worker' \in {"run_send", "run_receive", "raised"}
    /\ worker' # worker

\* The worker thread keeps running (whichever of run_send and run_receive it
\* is at, it gets to do) and the caller keeps polling receive
FairSpecSocket == SpecSocket /\ WF_worker(WorkerStep) /\ WF_vars(Receive)

----------------------------------------------------------------------------
(* Framing runs: datagrams are framed one after the other onto a wire, each   *)
(* frame is unframed as it stands, and the wire is cut at its terminators     *)

MaxDatagramLen == 2  \* bytes in a framed datagram

\* Bytes that matter to COBS and to the CRC: the zero, a letter, the highest byte
FrameBytes == {0, 65, 255}

FrameInputs == UNION {[1..n -> FrameBytes] : n \in 0..MaxDatagramLen}

InitFraming ==
    /\ ClientInit
    /\ NoHistory
    /\ NoSocket
    /\ msg = None
    /\ use_checksum = FALSE
    /\ stream = <<>>
    /\ fed = 0

\* frame(data): accepted holds the datagrams framed so far, _tx_buf the frame
\* of the last one, _rx_buf the concatenation of the frames not yet cut off
Frame(data) ==
    /\ Len(accepted) < MaxSends
    /\ Len(received) = Len(accepted)
    /\ accepted' = Append(accepted, data)
    /\ _tx_buf' = frame(data)
    /\ _rx_buf' = _rx_buf \o frame(data)
    /\ UNCHANGED <<modemVars, controlVars, sock_tx_queue, sock_rx_queue, worker, simulatorVars, received, queued>>

\* unframe(frame(data)): received holds what unframe has returned
Unframe ==
    /\ Len(received) < Len(accepted)
    /\ received' = Append(received, unframe(_tx_buf))
    /\ UNCHANGED <<modemVars, controlVars, sock_tx_queue, sock_rx_queue, _tx_buf, _rx_buf, worker,
                   simulatorVars, accepted, queued>>

\* The wire is cut at its first terminator; sock_rx_queue holds the pieces
ExtractFrame ==
    /\ find(_rx_buf, FRAME_END) > 0
    /\ LET e == _extract_frame_from_rx_buf(_rx_buf)
       IN  /\ _rx_buf' = e._rx_buf
           /\ sock_rx_queue' = Append(sock_rx_queue, e.frame)
    /\ UNCHANGED <<modemVars, controlVars, sock_tx_queue, _tx_buf, worker, simulatorVars, accepted, received, queued>>

NextFraming ==
    \/ \E data \in FrameInputs : Frame(data)
    \/ Unframe
    \/ ExtractFrame

SpecFraming == InitFraming /\ [][NextFraming]_vars

----------------------------------------------------------------------------
(* Padding runs: a transmit buffer (empty, or one frame) is cut into packets  *)
(* of the payload size, the last one padded; each packet is unframed as it    *)
(* stands, and the packets are cut at the frame ends                          *)

MaxPacketSize == 4  \* payload sizes of the padding runs

PadInputs == {<<>>} \cup {frame(d) : d \in FrameInputs}

InitPadding ==
    /\ in_buf = <<>>
    /\ out_buf = <<>>
    /\ _buffer = <<>>
    /\ _holdoff = 0
    /\ _rx_queue = <<>>
    /\ payload_size \in 1..MaxPacketSize
    /\ pc = "idle"
    /\ awaited = 0
    /\ result = None
    /\ ret_data = NoData
    /\ delivered = <<>>
    /\ ops = 0
    /\ call = "none"
    /\ args = NoArgs
    /\ ret = NoReturn
    /\ NoHistory
    /\ msg = None
    /\ use_checksum = FALSE
    /\ stream = <<>>
    /\ fed = 0
    /\ sock_tx_queue = <<>>
    /\ sock_rx_queue = <<>>
    /\ _tx_buf \in PadInputs
    /\ _rx_buf = <<>>
    /\ worker = "none"
    /\ run_event = FALSE
    /\ tx_max = 0
    /\ rx_max = 0
    /\ tx_queue = <<>>
    /\ sent = 0
    /\ _link_up_time = 0
    /\ _next_packet_time = 0
    /\ _link_up_duration = 0
    /\ _next_packet_duration = 0
    /\ since_delivery = 1
    /\ since_configure = 1
    /\ flushed = 0
    /\ accepted = <<>>
    /\ received = <<>>
    /\ queued = <<>>

\* _get_next_tx_packet (pad_payload of what is left, of nothing at all in the
\* first packet of an empty buffer); queued holds the packets, _rx_buf the
\* bytes that arrive
PadPayload ==
    /\ Len(queued) = 0 \/ Len(_tx_buf) > 0
    /\ LET n == _get_next_tx_packet(_tx_buf, payload_size)
       IN  /\ _tx_buf' = n._tx_buf
           /\ queued' = Append(queued, n.send)
           /\ _rx_buf' = _rx_buf \o n.send
    /\ UNCHANGED <<modemVars, controlVars, sock_tx_queue, sock_rx_queue, worker, simulatorVars, accepted, received>>

\* unframe(packet): received holds what unframe has returned
UnframePacket ==
    /\ Len(received) < Len(queued)
    /\ received' = Append(received, unframe(queued[Len(received) + 1]))
    /\ UNCHANGED <<modemVars, controlVars, sock_tx_queue, sock_rx_queue, _tx_buf, _rx_buf, worker,
                   simulatorVars, accepted, queued>>

NextPadding ==
    \/ PadPayload
    \/ UnframePacket
    \/ ExtractFrame

SpecPadding == InitPadding /\ [][NextPadding]_vars

----------------------------------------------------------------------------
(* Transit runs: the frames of some datagrams cross the link in packets, one  *)
(* frame with the byte that carries its CRC changed on the way (the transform *)
(* hook of the simulator), and run_receive takes the datagrams out            *)

TransitPayloadSize == int(<<51>>).value

\* Datagrams whose CRC is not 0, so that a byte of the frame carries it
TransitDatagrams == {<<65>>, <<0, 1>>, <<1, 1>>, <<65, 0>>}

\* What the byte is changed to
TransitValues == {1, 2, 255}

\* Where the frame of data carries the CRC: COBS/R puts the final byte in the
\* place of the length code of the last block when it is not smaller than
\* that code, and leaves it at the end otherwise
crc_index(data) ==
    LET raw == Append(data, crc_func(data))
        encoded == cobs_encode(raw)
        zeros == {i \in 1..Len(data) : data[i] = 0}
        last_zero == IF zeros = {} THEN 0 ELSE CHOOSE i \in zeros : \A j \in zeros : j <= i
    IN  IF Len(encoded) = Len(raw) + 1 THEN Len(encoded) ELSE last_zero + 1

\* transform(pkt): the frame with the byte that carries the CRC set to value
transform(data, value) ==
    [frame(data) EXCEPT ![crc_index(data)] = value]

RECURSIVE TransitWire(_, _, _)
TransitWire(datagrams, k, value) ==
    IF Len(datagrams) = 0 THEN <<>>
    ELSE (IF k = 1 THEN transform(Head(datagrams), value) ELSE frame(Head(datagrams)))
             \o TransitWire(Tail(datagrams), k - 1, value)

InitTransit ==
    /\ in_buf = <<>>
    /\ out_buf = <<>>
    /\ _buffer = <<>>
    /\ _holdoff = 0
    /\ _rx_queue = <<>>
    /\ payload_size = TransitPayloadSize
    /\ pc = "idle"
    /\ awaited = 0
    /\ result = None
    /\ ret_data = NoData
    /\ delivered = <<>>
    /\ ops = 0
    /\ call = "transform"
    /\ ret = NoReturn
    /\ NoHistory
    /\ msg = None
    /\ use_checksum = FALSE
    /\ stream = <<>>
    /\ fed = 0
    /\ accepted \in UNION {[1..n -> TransitDatagrams] : n \in 1..MaxSends}
    /\ args \in [frame : 1..Len(accepted), value : TransitValues]
    /\ args.value # crc_func(accepted[args.frame])
    /\ sock_tx_queue = <<>>
    /\ sock_rx_queue = <<>>
    /\ _tx_buf = TransitWire(accepted, args.frame, args.value)
    /\ _rx_buf = <<>>
    /\ worker = "none"
    /\ run_event = FALSE
    /\ tx_max = 0
    /\ rx_max = 0
    /\ tx_queue = <<>>
    /\ sent = 0
    /\ _link_up_time = 0
    /\ _next_packet_time = 0
    /\ _link_up_duration = 0
    /\ _next_packet_duration = 0
    /\ since_delivery = 1
    /\ since_configure = 1
    /\ flushed = 0
    /\ received = <<>>
    /\ queued = <<>>

\* The next packet crosses the link: _get_next_tx_packet on the sending side,
\* run_receive (with a packet from get_data_packet) on the receiving side
Transit ==
    /\ Len(_tx_buf) > 0
    /\ LET n == _get_next_tx_packet(_tx_buf, payload_size)
           x == extract_frames(_rx_buf \o n.send, sock_rx_queue)
       IN  /\ _tx_buf' = n._tx_buf
           /\ queued' = Append(queued, n.send)
           /\ _rx_buf' = x._rx_buf
           /\ sock_rx_queue' = x.queue
    /\ UNCHANGED <<modemVars, controlVars, sock_tx_queue, worker, simulatorVars, accepted, received>>

NextTransit ==
    \/ Transit
    \/ Receive

SpecTransit == InitTransit /\ [][NextTransit]_vars

----------------------------------------------------------------------------
(* Bounded-queue runs: sockets with tx_max 0, 1 and 2; the caller sends       *)
(* faster or slower than the worker takes the datagrams                       *)

BoundedDatagrams == {<<65>>, <<66, 0>>}

InitBounded == SocketWith({0, 1, 2})

NextBounded ==
    \/ \E d \in BoundedDatagrams : Send(d)
    \/ Receive
    \/ RunSend
    \/ RunReceive

SpecBounded == InitBounded /\ [][NextBounded]_vars

----------------------------------------------------------------------------
(* Stop runs: the caller sends, receives and stops the socket while the       *)
(* worker thread loops; stop may be called again                              *)

\* stop(), first half: run_event.clear(); the caller then waits in join
Stop ==
    /\ pc = "idle"
    /\ pc' = "join"
    /\ run_event' = FALSE
    /\ call' = "stop"
    /\ args' = NoArgs
    /\ ret' = NoneYet
    /\ UNCHANGED <<deviceVars, parserVars, _rx_queue, payload_size, awaited, result,
                   ret_data, delivered, ops, codecVars, streamVars, historyVars, tx_max, rx_max,
                   socketVars, simulatorVars, datagramVars>>

\* A join that does not wait for the thread
JoinAtOnce ==
    /\ pc = "join"
    /\ pc' = "idle"
    /\ ret' = Returned("None", FALSE)
    /\ UNCHANGED <<deviceVars, parserVars, _rx_queue, payload_size, awaited, result,
                   ret_data, delivered, ops, call, args, codecVars, streamVars,
                   historyVars, udpVars>>

\* stop(), second half: worker.join() returns once the thread has ended
Join ==
    /\ pc = "join"
    /\ worker \in {"exited", "raised"}
    /\ pc' = "idle"
    /\ ret' = Returned("None", FALSE)
    /\ UNCHANGED <<deviceVars, parserVars, _rx_queue, payload_size, awaited, result,
                   ret_data, delivered, ops, call, args, codecVars, streamVars,
                   historyVars, udpVars>>

\* run: the while condition is false, the thread ends
WorkerExit ==
    /\ worker = "run_send"
    /\ ~run_event
    /\ worker' = "exited"
    /\ UNCHANGED <<modemVars, controlVars, sock_tx_queue, sock_rx_queue, _tx_buf, _rx_buf,
                   simulatorVars, datagramVars>>

InitStop == SocketWith({0})

NextStop ==
    \/ \E d \in BoundedDatagrams : Send(d)
    \/ Receive
    \/ RunSend
    \/ RunReceive
    \/ Stop
    \/ Join
    \/ WorkerExit

SpecStop == InitStop /\ [][NextStop]_vars

\* A step of the running worker thread: out of run_send while run_event is set,
\* or out of run_receive
WorkerCycle ==
    \/ worker = "run_send" /\ run_event /\ worker' \in {"run_receive", "raised"}
    \/ worker = "run_receive" /\ worker' = "run_send"

\* The worker thread is scheduled (each cycle is a bounded number of requests
\* on the modem and a sleep), and join returns when the thread has ended
FairSpecStop ==
    SpecStop /\ WF_worker(WorkerCycle) /\ WF_worker(WorkerExit) /\ WF_pc(Join)

----------------------------------------------------------------------------
(* Simulator runs: the caller makes the calls of the public API on a          *)
(* connected WlModemSimulator; a request takes one step of the clock          *)
(* (time.sleep(0.05)), the durations are counted in such steps, and time      *)
(* also passes between the calls                                              *)

MaxCalls == 4  \* calls the caller makes in a run

\* link_up_duration and next_duration of the constructor, in clock steps
Durations == {0, 1, 2}

\* Two packets of the payload size and one that is shorter
SimPacketA == [i \in 1..M64PayloadSize |-> 48 + i]
SimPacketB == [i \in 1..M64PayloadSize |-> 64 + i]
SimPackets == {SimPacketA, SimPacketB, <<65>>}

\* State after WlModemSimulator(link_up_duration, 1.0, next_duration) and
\* connect(), which makes two requests
InitSimulator ==
    /\ in_buf = <<>>
    /\ out_buf = <<EOP>>
    /\ _buffer = <<>>
    /\ _holdoff = 0
    /\ _rx_queue = <<>>
    /\ payload_size = M64PayloadSize
    /\ pc = "idle"
    /\ awaited = 0
    /\ result = None
    /\ ret_data = NoData
    /\ delivered = <<>>
    /\ ops = 0
    /\ call = "connect"
    /\ args = NoArgs
    /\ ret = Returned("bool", TRUE)
    /\ NoHistory
    /\ msg = None
    /\ use_checksum = FALSE
    /\ stream = <<>>
    /\ fed = 0
    /\ sock_tx_queue = <<>>
    /\ sock_rx_queue = <<>>
    /\ _tx_buf = <<>>
    /\ _rx_buf = <<>>
    /\ worker = "none"
    /\ run_event = FALSE
    /\ tx_max = 0
    /\ rx_max = 0
    /\ tx_queue = <<>>
    /\ sent = 0
    /\ _link_up_duration \in Durations
    /\ _next_packet_duration \in Durations
    /\ _link_up_time = elapse(elapse(0))
    /\ _next_packet_time = elapse(elapse(0 + _next_packet_duration))
    /\ since_delivery = _next_packet_duration + 1
    /\ since_configure = _link_up_duration + 1
    /\ flushed = 0
    /\ accepted = <<>>
    /\ received = <<>>
    /\ queued = <<>>

\* A request that leaves the queue as it is
sim_queue_untouched(cmd_id, options, queue) == queue

\* The tx_queue a request leaves: flush empties it, queue_packet appends
\* options[1]
sim_queue(cmd_id, options, queue) ==
    IF cmd_id = CMD_FLUSH THEN <<>>
    ELSE IF cmd_id = CMD_QUEUE_PACKET THEN Append(queue, options[2])
    ELSE queue

\* The response of WlModemSimulator.request, read after its sleep; the numbers
\* among the options of get_diagnostic are written as the text int() and
\* float() read to the same values
sim_response(cmd_id, link_up_time) ==
    IF cmd_id = CMD_GET_VERSION
    THEN ModemSentence(cmd_id, DIR_RESP, TRUE, <<<<49>>, <<48>>, <<49>>>>)
    ELSE IF cmd_id = CMD_GET_PAYLOAD_SIZE
    THEN ModemSentence(cmd_id, DIR_RESP, TRUE, <<<<56>>>>)
    ELSE IF cmd_id = CMD_GET_BUFFER_LENGTH
    THEN ModemSentence(cmd_id, DIR_RESP, TRUE, <<format_int(Len(tx_queue))>>)
    ELSE IF cmd_id \in {CMD_FLUSH, CMD_SET_SETTINGS, CMD_QUEUE_PACKET}
    THEN ModemSentence(cmd_id, DIR_RESP, TRUE, <<<<97>>>>)
    ELSE IF cmd_id = CMD_GET_DIAGNOSTIC
    THEN ModemSentence(cmd_id, DIR_RESP, TRUE,
                       <<IF _is_link_up(link_up_time) THEN <<121>> ELSE <<110>>,
                         format_int(sent), format_int(0), <<51, 46, 53>>>>)
    ELSE None

\* WlModemSimulator.request under the call c: the sleep, then the branch of
\* cmd_id, then what c makes of the response
SimRequest(c, a, cmd_id, options) ==
    LET link_up_time == elapse(_link_up_time)
    IN  /\ ops < MaxCalls
        /\ ops' = ops + 1
        /\ call' = c
        /\ args' = a
        /\ ret' = Finish(c, sim_response(cmd_id, link_up_time), cmd_id, payload_size).ret
        /\ tx_queue' = sim_queue(cmd_id, options, tx_queue)
        /\ _link_up_time' = IF cmd_id = CMD_SET_SETTINGS THEN 0 + _link_up_duration
                            ELSE link_up_time
        /\ _next_packet_time' = elapse(_next_packet_time)
        /\ since_delivery' = later(since_delivery, _next_packet_duration)
        /\ since_configure' = IF cmd_id = CMD_SET_SETTINGS THEN 0
                              ELSE later(since_configure, _link_up_duration)
        /\ queued' = IF cmd_id = CMD_QUEUE_PACKET THEN Append(queued, options[2]) ELSE queued
        /\ flushed' = IF cmd_id = CMD_FLUSH THEN Len(queued) - Len(delivered) ELSE flushed
        /\ UNCHANGED <<deviceVars, parserVars, _rx_queue, payload_size, pc, awaited, result,
                       ret_data, delivered, codecVars, streamVars, historyVars, socketVars,
                       controlVars, sent, _link_up_duration, _next_packet_duration, accepted,
                       received>>

\* cmd_get_queue_length, cmd_flush_queue, cmd_get_diagnostic on the simulator
SimCommand(c) == SimRequest(c, NoArgs, CommandCodes[c], <<>>)

\* cmd_queue_packet(data) on the simulator
SimQueuePacket(data) ==
    IF cmd_queue_packet_raises(payload_size, data)
    THEN ops < MaxCalls /\ RaiseAtOnce("cmd_queue_packet", [data |-> data], "generic_error")
    ELSE SimRequest("cmd_queue_packet", [data |-> data], CMD_QUEUE_PACKET,
                    <<format_int(payload_size), data.bytes>>)

\* cmd_configure(role, channel) on the simulator
SimConfigure(role, channel) ==
    IF cmd_configure_raises(role, channel)
    THEN /\ ops < MaxCalls
         /\ RaiseAtOnce("cmd_configure", [role |-> role, channel |-> channel], "generic_error")
    ELSE SimRequest("cmd_configure", [role |-> role, channel |-> channel], CMD_SET_SETTINGS,
                    <<role, format_int(channel)>>)

\* WlModemSimulator.get_data_packet(timeout): a packet at once, or None after
\* a sleep of timeout clock steps (0 or 1)
SimGetDataPacket(timeout) ==
    LET g == sim_get_data_packet(tx_queue, _link_up_time, _next_packet_time)
        slept == g.popped = 0 /\ timeout > 0
    IN  /\ ops < MaxCalls
        /\ ops' = ops + 1
        /\ call' = "get_data_packet"
        /\ args' = [timeout |-> timeout]
        /\ ret' = IF g.pkt.some THEN Returned("bytes", g.pkt.bytes) ELSE Returned("None", 0)
        /\ ret_data' = g.pkt
        /\ delivered' = IF g.pkt.some THEN Append(delivered, g.pkt.bytes) ELSE delivered
        /\ tx_queue' = g.tx_queue
        /\ sent' = sent + g.popped
        /\ _next_packet_time' = IF slept THEN elapse(g._next_packet_time)
                                ELSE g._next_packet_time
        /\ _link_up_time' = IF slept THEN elapse(_link_up_time) ELSE _link_up_time
        /\ since_delivery' = IF g.popped = 1 THEN 0
                             ELSE IF slept THEN later(since_delivery, _next_packet_duration)
                             ELSE since_delivery
        /\ since_configure' = IF slept THEN later(since_configure, _link_up_duration)
                              ELSE since_configure
        /\ UNCHANGED <<deviceVars, parserVars, _rx_queue, payload_size, pc, awaited, result,
                       codecVars, streamVars, historyVars, socketVars, controlVars,
                       _link_up_duration, _next_packet_duration, flushed, datagramVars>>

\* Time goes by between two calls
Pass ==
    /\ _link_up_time' = elapse(_link_up_time)
    /\ _next_packet_time' = elapse(_next_packet_time)
    /\ since_delivery' = later(since_delivery, _next_packet_duration)
    /\ since_configure' = later(since_configure, _link_up_duration)
    /\ UNCHANGED <<modemVars, socketVars, controlVars, tx_queue, sent, _link_up_duration,
                   _next_packet_duration, flushed, datagramVars>>

NextSimulator ==
    \/ \E c \in {"cmd_get_queue_length", "cmd_flush_queue", "cmd_get_diagnostic"} : SimCommand(c)
    \/ \E d \in SimPackets : SimQueuePacket([is_bytes |-> TRUE, bytes |-> d])
    \/ \E channel \in {4, 8} : SimConfigure(<<97>>, channel)
    \/ \E timeout \in {0, 1} : SimGetDataPacket(timeout)
    \/ Pass

SpecSimulator == InitSimulator /\ [][NextSimulator]_vars

----------------------------------------------------------------------------
(* Worker runs on a modem behind a device: the worker thread of a            *)
(* WlUDPSocket is the caller of the modem client, whose answers arrive line   *)
(* by line; the application has sent its datagrams and polls receive          *)

\* What the modem may send: queue lengths 2 and 0, an acknowledge, a refusal,
\* a line that is no sentence, and a packet that carries the frame of a datagram
WorkerLines ==
    {Reply(CMD_GET_BUFFER_LENGTH, <<50>>), Reply(CMD_GET_BUFFER_LENGTH, <<48>>),
     Reply(CMD_QUEUE_PACKET, <<97>>), Reply(CMD_QUEUE_PACKET, <<110>>),
     <<SOP, 122, 120, EOP>>,
     Binary(DIR_RESP, RESP_GOT_PACKET, pad_payload(frame(<<66>>), M64PayloadSize)).wire}

\* State after connect() and WlUDPSocket(modem), with no or one datagram sent
InitWorker ==
    /\ in_buf = <<>>
    /\ out_buf = <<>>
    /\ _buffer = <<>>
    /\ _holdoff = 0
    /\ _rx_queue = <<>>
    /\ payload_size = M64PayloadSize
    /\ pc = "idle"
    /\ awaited = 0
    /\ result = None
    /\ ret_data = NoData
    /\ delivered = <<>>
    /\ ops = 0
    /\ call = "none"
    /\ args = NoArgs
    /\ ret = NoReturn
    /\ NoHistory
    /\ msg = None
    /\ use_checksum = FALSE
    /\ stream \in StreamsOf(WorkerLines)
    /\ fed = 0
    /\ sock_tx_queue \in {<<>>, <<<<65>>>>}
    /\ accepted = sock_tx_queue
    /\ sock_rx_queue = <<>>
    /\ _tx_buf = <<>>
    /\ _rx_buf = <<>>
    /\ worker = "run_send"
    /\ run_event = TRUE
    /\ tx_max = 0
    /\ rx_max = 0
    /\ tx_queue = <<>>
    /\ sent = 0
    /\ _link_up_time = 0
    /\ _next_packet_time = 0
    /\ _link_up_duration = 0
    /\ _next_packet_duration = 0
    /\ since_delivery = 1
    /\ since_configure = 1
    /\ flushed = 0
    /\ received = <<>>
    /\ queued = <<>>

\* run: while run_event is set, run_send; its first statement is the call of
\* cmd_get_queue_length
WorkerGetQueueLength ==
    /\ worker = "run_send"
    /\ run_event
    /\ call = "none"
    /\ Command("cmd_get_queue_length")

\* run_send once cmd_get_queue_length is back: an exception leaves run_send
\* and run, which catch nothing; a low queue makes it fill _tx_buf and take
\* the next packet
WorkerFill ==
    /\ worker = "run_send"
    /\ pc = "idle"
    /\ call = "cmd_get_queue_length"
    /\ LET low == ret.kind = "int" /\ queue_is_low(ret.value)
           f == IF low /\ Len(_tx_buf) < payload_size
                THEN _fill_tx_buf(_tx_buf, sock_tx_queue)
                ELSE [_tx_buf |-> _tx_buf, queue |-> sock_tx_queue]
           queues == low /\ Len(f._tx_buf) > 0
           n == _get_next_tx_packet(f._tx_buf, payload_size)
       IN  /\ worker' = IF ret.kind = "raise" THEN "raised"
                        ELSE IF queues THEN "cmd_queue_packet" ELSE "run_receive"
           /\ call' = IF ret.kind = "raise" \/ queues THEN call ELSE "none"
           /\ sock_tx_queue' = f.queue
           /\ _tx_buf' = IF queues THEN n._tx_buf ELSE f._tx_buf
           /\ queued' = IF queues THEN Append(queued, n.send) ELSE queued
    /\ UNCHANGED <<deviceVars, parserVars, _rx_queue, payload_size, callerVars, ret, args,
                   codecVars, streamVars, historyVars, sock_rx_queue, _rx_buf, controlVars,
                   simulatorVars, accepted, received>>

\* run_send: self.modem.cmd_queue_packet(send)
WorkerQueuePacket ==
    /\ worker = "cmd_queue_packet"
    /\ call = "cmd_get_queue_length"
    /\ CmdQueuePacket([is_bytes |-> TRUE, bytes |-> queued[Len(queued)]])

\* run_send ends when cmd_queue_packet is back; run_receive follows
WorkerQueued ==
    /\ worker = "cmd_queue_packet"
    /\ pc = "idle"
    /\ call = "cmd_queue_packet"
    /\ worker' = IF ret.kind = "raise" THEN "raised" ELSE "run_receive"
    /\ call' = IF ret.kind = "raise" THEN call ELSE "none"
    /\ UNCHANGED <<deviceVars, parserVars, _rx_queue, payload_size, callerVars, ret, args,
                   codecVars, streamVars, historyVars, sock_tx_queue, sock_rx_queue, _tx_buf,
                   _rx_buf, controlVars, simulatorVars, datagramVars>>

\* run_receive: received = self.modem.get_data_packet(0)
WorkerGetDataPacket ==
    /\ worker = "run_receive"
    /\ call = "none"
    /\ GetDataPacket(FALSE)

\* run_receive once get_data_packet is back: the packet goes to _rx_buf and
\* the frames in it are taken out; then the sleep, and the next turn of run
WorkerExtract ==
    /\ worker = "run_receive"
    /\ pc = "idle"
    /\ call = "get_data_packet"
    /\ LET got == ret.kind = "bytes" /\ Len(ret.value) > 0
           x == IF got THEN extract_frames(_rx_buf \o ret.value, sock_rx_queue)
                ELSE [_rx_buf |-> _rx_buf, queue |-> sock_rx_queue]
       IN  /\ worker' = IF ret.kind = "raise" THEN "raised" ELSE "run_send"
           /\ call' = IF ret.kind = "raise" THEN call ELSE "none"
           /\ _rx_buf' = x._rx_buf
           /\ sock_rx_queue' = x.queue
    /\ UNCHANGED <<deviceVars, parserVars, _rx_queue, payload_size, callerVars, ret, args,
                   codecVars, streamVars, historyVars, sock_tx_queue, _tx_buf, controlVars,
                   simulatorVars, datagramVars>>

NextWorker ==
    \/ FeedLine
    \/ Receive
    \/ WorkerGetQueueLength
    \/ Poll
    \/ Timeout
    \/ WorkerFill
    \/ WorkerQueuePacket
    \/ WorkerQueued
    \/ WorkerGetDataPacket
    \/ WorkerExtract

SpecWorker == InitWorker /\ [][NextWorker]_vars

----------------------------------------------------------------------------
(* Paced runs: a WlUDPSocket on a connected WlModemSimulator that gives out   *)
(* a packet only every next_duration, so that packets wait in the modem       *)

\* next_duration of the constructor, in clock steps
PacedDurations == {0, 2}

\* A datagram of one packet and one of three (a frame of 17 bytes)
PacedDatagrams == {<<65>>, [i \in 1..(2 * M64PayloadSize - 2) |-> 64 + i]}

\* State after WlModemSimulator(0, 0, next_duration), connect() and
\* WlUDPSocket(modem)
InitPaced ==
    /\ in_buf = <<>>
    /\ out_buf = <<EOP>>
    /\ _buffer = <<>>
    /\ _holdoff = 0
    /\ _rx_queue = <<>>
    /\ payload_size = M64PayloadSize
    /\ pc = "idle"
    /\ awaited = 0
    /\ result = None
    /\ ret_data = NoData
    /\ delivered = <<>>
    /\ ops = 0
    /\ call = "none"
    /\ args = NoArgs
    /\ ret = NoneYet
    /\ NoHistory
    /\ msg = None
    /\ use_checksum = FALSE
    /\ stream = <<>>
    /\ fed = 0
    /\ sock_tx_queue = <<>>
    /\ sock_rx_queue = <<>>
    /\ _tx_buf = <<>>
    /\ _rx_buf = <<>>
    /\ worker = "run_send"
    /\ run_event = TRUE
    /\ tx_max = 0
    /\ rx_max = 0
    /\ tx_queue = <<>>
    /\ sent = 0
    /\ _link_up_duration = 0
    /\ _next_packet_duration \in PacedDurations
    /\ _link_up_time = elapse(elapse(0))
    /\ _next_packet_time = elapse(elapse(0 + _next_packet_duration))
    /\ since_delivery = _next_packet_duration + 1
    /\ since_configure = 1
    /\ flushed = 0
    /\ accepted = <<>>
    /\ received = <<>>
    /\ queued = <<>>

NextPaced ==
    \/ \E d \in PacedDatagrams : Send(d)
    \/ Receive
    \/ RunSend
    \/ RunReceive
    \/ Pass

SpecPaced == InitPaced /\ [][NextPaced]_vars

----------------------------------------------------------------------------
(* Inbound runs: sockets with rx_max 0, 1 and 2 on the simulator; the caller  *)
(* sends datagrams, the empty one among them, and receives when it likes      *)

InboundDatagrams == {<<>>, <<65>>, <<66, 0>>}

InitInbound == SocketOn({0}, {0, 1, 2})

NextInbound ==
    \/ \E d \in InboundDatagrams : Send(d)
    \/ Receive
    \/ RunSend
    \/ RunReceive

SpecInbound == InitInbound /\ [][NextInbound]_vars

----------------------------------------------------------------------------
(* wait_sentence byte by byte: the device goes on delivering while get_packet *)
(* is in its loop, so that in_waiting is read again after every byte          *)

MaxWaiting == 2   \* bytes waiting in the device
MaxBuffered == 7  \* bytes of a sentence that has not ended yet

\* What the device repeats without end: empty lines, bytes with no EOP, the
\* answer that is awaited, an answer to another command, a line that is no
\* sentence
EndlessStreams ==
    {<<EOP>>, <<120>>, Reply(CMD_GET_BUFFER_LENGTH, <<50>>),
     Reply(CMD_GET_PAYLOAD_SIZE, <<56>>), <<SOP, 122, 120, EOP>>}

InitEndless == InitCalls({M64PayloadSize}, EndlessStreams)

\* The device receives the next byte of what it repeats
Deliver ==
    /\ Len(in_buf) < MaxWaiting
    /\ Len(in_buf) + Len(_buffer) < MaxBuffered
    /\ in_buf' = Append(in_buf, stream[(fed % Len(stream)) + 1])
    /\ fed' = (fed % Len(stream)) + 1
    /\ UNCHANGED <<commandVars, udpVars, out_buf, parserVars, _rx_queue, payload_size,
                   callerVars, codecVars, stream, historyVars>>

\* The caller asks for the queue length: request writes and enters wait_sentence
EndlessRequest == Command("cmd_get_queue_length")

\* wait_sentence: the deadline has not passed, get_packet is called
EnterGetPacket ==
    /\ pc = "wait"
    /\ pc' = "get_packet"
    /\ UNCHANGED <<deviceVars, parserVars, _rx_queue, payload_size, awaited, result, ret_data,
                   delivered, ops, commandVars, codecVars, streamVars, historyVars, udpVars>>

\* One iteration of the while loop of get_packet on the byte read: whether
\* get_packet returns in it, the loop's is_done after it, and the outcome
get_packet_iteration(data, rest, buf, hold, is_done) ==
    IF Len(buf) = 0 /\ is_eop(data)
    THEN [returns |-> FALSE, is_done |-> is_done, out |-> Outcome(None, rest, buf, hold)]
    ELSE
        LET eop == hold = 0 /\ is_eop(data)
            done1 == is_done \/ eop
            buf1 == IF eop THEN buf ELSE Append(buf, data)
            hold1 == IF hold > 0 THEN hold - 1 ELSE hold
            size == IF hold1 = 0 THEN get_binary_payload_size(buf1) ELSE -1
            hold2 == IF size > 0 THEN size ELSE hold1
        IN  IF hold2 > 0 \/ ~done1
            THEN [returns |-> FALSE, is_done |-> done1,
                  out |-> Outcome(None, rest, buf1, hold2)]
            ELSE [returns |-> TRUE, is_done |-> done1, out |-> finish_parse(rest, buf1)]

\* get_packet: in_waiting > 0, a byte is read; when get_packet returns or
\* raises in this iteration, wait_sentence and the command go on with it
ReadByte ==
    /\ pc \in {"get_packet", "get_packet_done"}
    /\ Len(in_buf) > 0
    /\ LET i == get_packet_iteration(Head(in_buf), Tail(in_buf), _buffer, _holdoff,
                                     pc = "get_packet_done")
           o == i.out
           w == wait_sentence_on(o.result, awaited, _rx_queue)
           f == Finish(call, o.result, awaited, payload_size)
       IN  /\ in_buf' = o.in_buf
           /\ _buffer' = o._buffer
           /\ _holdoff' = o._holdoff
           /\ IF ~i.returns
              THEN /\ pc' = IF i.is_done THEN "get_packet_done" ELSE "get_packet"
                   /\ UNCHANGED <<result, _rx_queue, payload_size, ret>>
              ELSE IF o.result.kind = "none"
              THEN /\ pc' = "wait"
                   /\ UNCHANGED <<result, _rx_queue, payload_size, ret>>
              ELSE IF o.result.kind # "sentence"
              THEN /\ pc' = "idle"
                   /\ result' = o.result
                   /\ ret' = Returned("raise", o.result.kind)
                   /\ UNCHANGED <<_rx_queue, payload_size>>
              ELSE IF ~w.done
              THEN /\ pc' = "wait"
                   /\ _rx_queue' = w.queue
                   /\ UNCHANGED <<result, payload_size, ret>>
              ELSE /\ pc' = "idle"
                   /\ _rx_queue' = w.queue
                   /\ result' = o.result
                   /\ ret' = f.ret
                   /\ payload_size' = f.payload_size
    /\ UNCHANGED <<out_buf, awaited, ret_data, delivered, ops, call, args, codecVars,
                   streamVars, historyVars, udpVars>>

\* get_packet: in_waiting is 0, the loop ends and get_packet returns None;
\* wait_sentence sleeps and looks at the clock again
ReturnNone ==
    /\ pc \in {"get_packet", "get_packet_done"}
    /\ Len(in_buf) = 0
    /\ pc' = "wait"
    /\ UNCHANGED <<deviceVars, parserVars, _rx_queue, payload_size, awaited, result, ret_data,
                   delivered, ops, commandVars, codecVars, streamVars, historyVars, udpVars>>

NextEndless ==
    \/ Deliver
    \/ EndlessRequest
    \/ EnterGetPacket
    \/ ReadByte
    \/ ReturnNone
    \/ Timeout

\* The caller's thread goes on running, and of the deadline tests that
\* wait_sentence goes on making one finds the deadline passed
SpecEndless ==
    /\ InitEndless
    /\ [][NextEndless]_vars
    /\ WF_vars(EnterGetPacket)
    /\ WF_vars(ReadByte)
    /\ WF_vars(ReturnNone)
    /\ SF_vars(Timeout)

----------------------------------------------------------------------------
(* Correlation runs: queue-length queries and get_data_packet calls on a     *)
(* device whose lines may be late, of another code, or of the command         *)
(* direction                                                                  *)

\* wrl,2  wrl,0  wcl,1  wrn,8  wcp,1,A  wrp,1,B
CorrelationLines ==
    {Reply(CMD_GET_BUFFER_LENGTH, <<50>>), Reply(CMD_GET_BUFFER_LENGTH, <<48>>),
     Text(CMD_GET_BUFFER_LENGTH, DIR_CMD, <<<<49>>>>, FALSE).wire,
     Reply(CMD_GET_PAYLOAD_SIZE, <<56>>),
     Binary(DIR_CMD, RESP_GOT_PACKET, <<65>>).wire, PacketB.wire}

InitCorrelation == InitCalls({M64PayloadSize}, StreamsOf(CorrelationLines))

NextCorrelation ==
    \/ FeedLine
    \/ Command("cmd_get_queue_length")
    \/ Poll
    \/ Timeout
    \/ \E blocking \in BOOLEAN : GetDataPacket(blocking)

SpecCorrelation == InitCorrelation /\ [][NextCorrelation]_vars

----------------------------------------------------------------------------
(* Claims about the streaming parser, checked under SpecParser *)

ParserErrors == {"parse_error", "checksum_error"}

\* C3: however the stream is cut into chunks between get_packet calls, the
\* sentences and errors emitted are those of the run that has the whole
\* stream from the start: always a prefix of them, and all of them once the
\* stream has been read.
C3_ChunkingEquivalence ==
    /\ IsPrefix(emitted, ParseAll[stream])
    /\ AllRead => emitted = ParseAll[stream]

C3_Witness ==
    /\ AllRead
    /\ partial
    /\ Len(emitted) = 2
    /\ \E j \in 1..2 : emitted[j].kind = "sentence" /\ emitted[j].cmd = RESP_GOT_PACKET

\* C4: a binary sentence 'w<dir><q|p>,<N>,<payload>' with N of any number of
\* digits and CR/LF anywhere in the payload: the parser holds off exactly N
\* bytes after the second comma and emits exactly one sentence [N, payload].
C4_HoldoffAnyLength ==
    \A b \in BinarySentences({EOP, CR}) :
        stream = b.wire =>
            /\ AllRead => emitted = <<b.sentence>>
            /\ _buffer = SubSeq(b.wire, 1, 5 + Len(b.sentence.options[1]))
                   => _holdoff = Len(b.sentence.options[2])

\* C9 as stated: a line with a well-formed SOP and direction and an unknown
\* code makes get_packet raise parse_error.
C9_UnknownCodeRaises ==
    (stream \in UnknownCodeLines /\ AllRead) =>
        /\ result.kind = "parse_error"
        /\ emitted = <<Raise("parse_error")>>

\* C9 amended: such a line makes get_packet return None, no error is raised
\* and nothing is emitted; the line is dropped and the parser state is reset.
C9_UnknownCodeReturnsNone ==
    (stream \in UnknownCodeLines /\ AllRead) =>
        /\ result = None
        /\ emitted = <<>>
        /\ _buffer = <<>>
        /\ _holdoff = 0

C9_Witness ==
    stream \in UnknownCodeLines /\ AllRead /\ result = None /\ _buffer = <<>>

\* C10: when get_packet raises parse_error or checksum_error the parser state
\* is already (empty buffer, holdoff 0), and a well-formed sentence that
\* follows the bad line in the stream is emitted intact by a later call.
C10_ErrorResets ==
    /\ result.kind \in ParserErrors => (_buffer = <<>> /\ _holdoff = 0)
    /\ \A j \in 1..Len(emitted) : \A g \in GoodSentences :
        ( /\ emitted[j].kind \in ParserErrors
          /\ IsPrefix(g.wire, SubSeq(stream, emitted_at[j] + 1, Len(stream)))
          /\ fed - Len(in_buf) >= emitted_at[j] + Len(g.wire) )
        => ( /\ Len(emitted) > j
             /\ emitted[j + 1] = g.sentence
             /\ emitted_at[j + 1] = emitted_at[j] + Len(g.wire) )

C10_Witness ==
    /\ Len(emitted) = 2
    /\ emitted[1].kind = "checksum_error"
    /\ emitted[2].kind = "sentence"
    /\ emitted[2].cmd = RESP_GOT_PACKET
    /\ partial

\* C11: while a proper prefix of a single well-formed sentence has been read,
\* get_packet has returned None every time, nothing has been emitted and the
\* bytes read are all in the buffer; once the whole sentence has been read,
\* exactly that one sentence has been emitted.
C11_PartialNoOutput ==
    \A g \in GoodSentences \cup BinarySentences({EOP, CR}) :
        stream = g.wire =>
            /\ fed - Len(in_buf) < Len(g.wire) =>
                  /\ emitted = <<>>
                  /\ result = None
                  /\ _buffer = SubSeq(g.wire, 1, fed - Len(in_buf))
            /\ AllRead => emitted = <<g.sentence>>

----------------------------------------------------------------------------
(* Claims about the modem client, checked under SpecClient *)

\* The payloads of the got_packet sentences among ms, in order
RECURSIVE PacketsOf(_)
PacketsOf(ms) ==
    IF Len(ms) = 0 THEN <<>>
    ELSE (IF Head(ms).kind = "sentence" /\ Head(ms).cmd = RESP_GOT_PACKET
          THEN <<Head(ms).options[2]>> ELSE <<>>) \o PacketsOf(Tail(ms))

\* The payloads handed to the caller followed by those still queued
Handled == delivered \o PacketsOf(_rx_queue)

Count(seq, x) == Cardinality({i \in 1..Len(seq) : seq[i] = x})

\* C5: a got_packet sentence read while a command waits for its response is
\* not lost: every packet read from the wire is either queued or has been
\* returned by get_data_packet, exactly once, and a command that returns a
\* sentence returns the response it asked for.
C5_NoPacketLost ==
    /\ \A x \in {PacketA.sentence.options[2], PacketB.sentence.options[2]} :
          Count(Handled, x) = Count(PacketsOf(emitted), x)
    /\ (pc = "idle" /\ awaited \notin {0, RESP_GOT_PACKET} /\ result.kind = "sentence")
          => result.cmd = awaited

C5_Witness ==
    /\ pc = "idle"
    /\ awaited = CMD_GET_BUFFER_LENGTH
    /\ result.kind = "sentence"
    /\ Len(_rx_queue) = 1

\* C6: the payloads get_data_packet returns, followed by the queued ones, are
\* the packets in the order their sentences were read from the wire.
C6_FifoOrder == Handled = PacketsOf(emitted)

C6_Witness ==
    /\ Len(delivered) = 1
    /\ Len(_rx_queue) = 1
    /\ delivered[1] # _rx_queue[1].options[2]

----------------------------------------------------------------------------
(* Claims about the datagram socket *)

\* C1: on the simulator without loss, with the worker running and the caller
\* polling receive, the i-th datagram send has accepted is eventually the
\* i-th datagram receive returns, byte for byte, whatever its length.
C1_EventualDelivery ==
    \A i \in 1..MaxSends :
        [](Len(accepted) >= i => <>(Len(received) >= i /\ received[i] = accepted[i]))

C1_Witness ==
    /\ Len(accepted) = MaxSends
    /\ received = accepted
    /\ \E i \in 1..Len(received) : Len(received[i]) > payload_size

\* A packet that holds the end of one frame and the start of the next
SharesPacket(pkt) ==
    LET idx == find(pkt, FRAME_END)
    IN  /\ idx > 0
        /\ idx < Len(pkt)
        /\ SubSeq(pkt, idx + 1, Len(pkt)) # pad_payload(<<>>, Len(pkt) - idx)

\* C2: the datagrams receive has returned, followed by those waiting in the
\* receive queue, are the first datagrams send accepted, in the same order,
\* each once.
C2_InOrder == IsPrefix(received \o sock_rx_queue, accepted)

C2_Witness ==
    /\ Len(received) = 2
    /\ received[1] # received[2]
    /\ \E k \in 1..Len(queued) : SharesPacket(queued[k])

----------------------------------------------------------------------------
(* Claims about connect, checked under SpecConnect *)

\* The call returned the boolean b
ReturnedBool(r, b) == r.kind = "bool" /\ r.value = b

\* The bytes a step appends to the device
Written == SubSeq(out_buf', Len(out_buf) + 1, Len(out_buf'))

\* C13: a connect call writes "\n" and "wcv\n" when it starts, and after that
\* only "wcn\n", once, in the step in which it receives a version response
\* with major = 1; it writes nothing else.
C13_ConnectWrites ==
    [][call' = "connect" =>
          /\ IsPrefix(out_buf, out_buf')
          /\ IF ops' # ops
             THEN Written = <<EOP, SOP, DIR_CMD, CMD_GET_VERSION, EOP>>
             ELSE \/ Written = <<>>
                  \/ /\ Written = <<SOP, DIR_CMD, CMD_GET_PAYLOAD_SIZE, EOP>>
                     /\ awaited = CMD_GET_VERSION
                     /\ awaited' = CMD_GET_PAYLOAD_SIZE
                     /\ result'.kind = "sentence"
                     /\ result'.cmd = CMD_GET_VERSION
                     /\ int(result'.options[1]).value = 1]_vars

C13_Witness ==
    /\ call = "connect"
    /\ ReturnedBool(ret, TRUE)
    /\ out_buf = <<EOP, SOP, DIR_CMD, CMD_GET_VERSION, EOP,
                   SOP, DIR_CMD, CMD_GET_PAYLOAD_SIZE, EOP>>

\* C14: payload_size changes only in the step in which a connect returns true,
\* it is positive whenever a connect returns true, and once positive it is
\* never changed again, by a later connect or by anything else.
C14_PayloadSizeConstant ==
    [][/\ payload_size' # payload_size =>
             (call = "connect" /\ ReturnedBool(ret', TRUE))
       /\ (call' = "connect" /\ ReturnedBool(ret', TRUE)) => payload_size' > 0
       /\ payload_size > 0 => payload_size' = payload_size]_vars

\* C15: cmd_queue_packet raises generic_error when payload_size < 1, when the
\* data is not a byte string, or when its length differs from payload_size, and
\* then nothing is written to the device and the parser state and the queue of
\* pending packets are unchanged
GenericError(r) == r.kind = "raise" /\ r.value = "generic_error"

C15_QueuePacketArguments ==
    [][(call' = "cmd_queue_packet" /\ ops' # ops) =>
          LET data == args'.data
          IN  (payload_size < 1 \/ ~data.is_bytes \/ Len(data.bytes) # payload_size) =>
                  /\ GenericError(ret')
                  /\ out_buf' = out_buf
                  /\ in_buf' = in_buf
                  /\ _buffer' = _buffer
                  /\ _holdoff' = _holdoff
                  /\ _rx_queue' = _rx_queue]_vars

C15_Witness ==
    /\ call = "cmd_queue_packet"
    /\ GenericError(ret)
    /\ payload_size = 2
    /\ args.data.is_bytes
    /\ Len(args.data.bytes) = 3
    /\ ops = 2

\* C16: cmd_configure raises generic_error, before anything is written, for any
\* role outside {a, b} and any channel outside 1..7; with valid arguments it
\* writes one set_settings command and returns true exactly when the reply is
\* an ack
C16_ConfigureArguments ==
    [][(call' = "cmd_configure" /\ ops' # ops) =>
          IF args'.role \in {<<97>>, <<98>>} /\ args'.channel \in 1..7
          THEN /\ ret'.kind = "pending"
               /\ Written = <<SOP, DIR_CMD, CMD_SET_SETTINGS, 44>> \o args'.role
                                \o <<44>> \o format_int(args'.channel) \o <<EOP>>
          ELSE /\ GenericError(ret')
               /\ out_buf' = out_buf]_vars


\* C17: when no sentence with the awaited code arrives before the deadline,
\* also when the only bytes that arrive form an unrecognised or malformed line,
\* every command returns its timeout sentinel and does not raise
Commands ==
    DOMAIN CommandCodes \cup {"cmd_configure", "cmd_queue_packet"}

IsSentinel(c, r) ==
    CASE c = "cmd_get_version" -> r.kind = "None"
      [] c = "cmd_get_payload_size" -> r.kind = "int" /\ r.value = 0
      [] c = "cmd_get_queue_length" -> r.kind = "int" /\ r.value = 0 - 1
      [] c \in {"cmd_configure", "cmd_flush_queue", "cmd_queue_packet"} ->
            ReturnedBool(r, FALSE)
      [] c = "cmd_get_diagnostic" -> r.kind = "dict" /\ r.value = <<>>

\* a step in which a waiting command ends
Ends == call \in Commands /\ pc = "wait" /\ pc' = "idle"

NonBlocking == call' = "get_data_packet" /\ ops' # ops /\ args'.timeout = 0

Attempt == get_packet(in_buf, _buffer, _holdoff)

IsGotPacket(pkt) == pkt.kind = "sentence" /\ pkt.cmd = RESP_GOT_PACKET

OneAttempt ==
    /\ in_buf' = Attempt.in_buf
    /\ _buffer' = Attempt._buffer
    /\ _holdoff' = Attempt._holdoff
    /\ _rx_queue' = _rx_queue
    /\ out_buf' = out_buf

FromPending ==
    /\ Len(_rx_queue) > 0
    /\ ret'.kind = "bytes"
    /\ ret'.value = Head(_rx_queue).options[2]
    /\ _rx_queue' = Tail(_rx_queue)
    /\ in_buf' = in_buf
    /\ _buffer' = _buffer
    /\ _holdoff' = _holdoff
    /\ out_buf' = out_buf

C19_FrameRoundTrip ==
    \A i \in 1..Len(received) :
        Len(accepted[i]) > 0 => received[i] = [kind |-> "data", data |-> accepted[i]]

C19_Witness ==
    /\ Len(received) = 2
    /\ accepted[1] = <<0, 255>>
    /\ received[2].data = <<65, 0>>

\* C20: frame(d) contains exactly one 0x00 byte, its last byte, so that in a
\* concatenation of frames each 0x00 ends exactly one frame: cutting the
\* concatenation at the zeros gives back the frames
Zeros(buf) == {i \in 1..Len(buf) : buf[i] = FRAME_END}

C20_OneTerminator ==
    /\ Len(accepted) > 0 => Zeros(_tx_buf) = {Len(_tx_buf)}
    /\ Cardinality(Zeros(_rx_buf)) + Len(sock_rx_queue) = Len(accepted)
    /\ \A j \in 1..Len(sock_rx_queue) :
          Append(sock_rx_queue[j], FRAME_END) = frame(accepted[j])

C20_Witness ==
    /\ Len(sock_rx_queue) = 2
    /\ accepted = <<<<0, 0>>, <<>>>>
    /\ _rx_buf = <<>>


----------------------------------------------------------------------------
(* Claims about padding, checked under SpecPadding *)

\* the first packet is the padding of empty data
PurePadding == Len(queued) > 0 /\ queued[1] = pad_payload(<<>>, payload_size)

\* C21: unframe applied to a pure padding pattern (pad_payload of empty data)
\* returns the fill sentinel None, never data and never an error
C21_PaddingIsFill ==
    (PurePadding /\ Len(received) > 0) => received[1].kind = "None"

\* C21 as amended: unframe applied to a padding pattern of one frame (a lone
\* 0x00, or 0x01 0x00) returns None, and applied to a longer pattern it returns
\* False, the zero inside the pattern being a decode error; every piece that
\* cutting the pattern at its frame ends gives unframes to None
C21_OnePaddingFrameIsFill ==
    /\ (PurePadding /\ Len(received) > 0) =>
          received[1].kind = IF payload_size <= 2 THEN "None" ELSE "False"
    /\ (PurePadding /\ Len(queued) = 1) =>
          \A j \in 1..Len(sock_rx_queue) : unframe(sock_rx_queue[j]).kind = "None"

C21_Witness ==
    /\ PurePadding
    /\ payload_size = 4
    /\ Len(received) = 1
    /\ received[1].kind = "False"
    /\ Len(sock_rx_queue) = 2
    /\ _rx_buf = <<>>

----------------------------------------------------------------------------
(* Claims about frames damaged in transit, checked under SpecTransit *)

\* The datagrams sent, without the one whose frame was damaged
Undamaged ==
    SubSeq(accepted, 1, args.frame - 1) \o SubSeq(accepted, args.frame + 1, Len(accepted))

\* C22: when the CRC byte of one datagram's frame is changed in transit (to a
\* value that is not zero), unframe reports an error for that frame, nothing is
\* queued for it, and the datagrams before and after it are delivered
\* unchanged and in order: exactly one datagram is dropped
C22_OneDatagramDropped ==
    /\ IsPrefix(received \o sock_rx_queue, Undamaged)
    /\ Len(_tx_buf) = 0 =>
          /\ unframe(transform(accepted[args.frame], args.value)).kind = "False"
          /\ received \o sock_rx_queue = Undamaged

----------------------------------------------------------------------------
(* Claims about the bounded queue, checked under SpecBounded *)

\* C23: with tx_max > 0 the tx_queue never holds more than tx_max datagrams;
\* send(d, block=false) returns false and leaves the queue unchanged exactly
\* when the queue is full, and otherwise puts d at the tail and returns true;
\* with tx_max = 0 send never returns false
IsSend == ops' # ops /\ call' = "send"

C23_BoundedSend ==
    [][/\ tx_max > 0 => Len(sock_tx_queue') <= tx_max
       /\ IsSend =>
             IF tx_max > 0 /\ Len(sock_tx_queue) = tx_max
             THEN ReturnedBool(ret', FALSE) /\ sock_tx_queue' = sock_tx_queue
             ELSE /\ ReturnedBool(ret', TRUE)
                  /\ sock_tx_queue' = Append(sock_tx_queue, args'.data)]_vars

C23_Witness ==
    /\ tx_max = 1
    /\ call = "send"
    /\ ReturnedBool(ret, FALSE)
    /\ sock_tx_queue = <<<<65>>>>
    /\ args.data = <<66, 0>>

----------------------------------------------------------------------------
(* Claims about stop, checked under SpecStop with a fair worker *)

WorkerEnded == worker \in {"exited", "raised"}

\* the worker thread touches neither the modem nor the staging buffers
WorkerIdle ==
    UNCHANGED <<worker, simulatorVars, _tx_buf, _rx_buf, queued, deviceVars, parserVars,
                _rx_queue>>

\* C24: stop clears the run flag and returns only after the worker has left its
\* loop; it always returns; once it has returned the worker does nothing more
\* on the modem client; and a further stop changes nothing
C24_StopJoinsWorker ==
    /\ [][/\ (pc = "idle" /\ pc' = "join") => ~run_event'
          /\ (pc = "join" /\ pc' = "idle") => (WorkerEnded /\ ~run_event)
          /\ (WorkerEnded /\ pc' = pc) => WorkerIdle
          /\ (WorkerEnded /\ pc' # pc) =>
                UNCHANGED <<udpVars, deviceVars, parserVars, _rx_queue, payload_size>>]_vars
    /\ (pc = "join") ~> (pc = "idle" /\ WorkerEnded)

C24_Witness ==
    /\ call = "stop"
    /\ pc = "idle"
    /\ ret.kind = "None"
    /\ worker = "exited"
    /\ ~run_event
    /\ Len(received) = 1
    /\ Len(accepted) = 2

\* a step of the application thread: a send, a receive that returns a datagram,
\* or one of the two halves of stop
ApplicationStep == ops' # ops \/ received' # received \/ pc' # pc

\* C26: send, receive and stop, called from the application thread, touch only
\* tx_queue, rx_queue and the run flag; the modem client, tx_buf and rx_buf
\* belong to the worker thread, whatever the interleaving of calls and cycles
C26_WorkerOwnsModem ==
    [][/\ ApplicationStep =>
             UNCHANGED <<worker, simulatorVars, deviceVars, parserVars, _rx_queue,
                         payload_size, _tx_buf, _rx_buf, queued>>
       /\ worker' # worker => ~ApplicationStep]_vars

C26_Witness ==
    /\ call = "send"
    /\ worker = "run_receive"
    /\ Len(queued) = 1
    /\ Len(accepted) = 2
    /\ Len(sock_tx_queue) = 1
    /\ Len(tx_queue) = 1

\* The buffer begins with 'w<dir><q|p>,<len>,' whose second comma is byte n,
\* and <len> is the holdoff that was set: the k bytes still held off plus the
\* payload bytes taken since
CompletePrefix(buf, n, k) ==
    /\ buf[1] = SOP
    /\ buf[3] \in {CMD_QUEUE_PACKET, RESP_GOT_PACKET}
    /\ buf[4] = COMMA
    /\ buf[n] = COMMA
    /\ \A i \in 5..(n - 1) : buf[i] \in 48..57
    /\ int(SubSeq(buf, 5, n - 1)).value = k + (Len(buf) - n)

\* C30: binary_holdoff = k > 0 only if the buffer begins with a complete
\* prefix 'w<dir><code>,<len>,' (second comma included), code in {q, p}, and
\* <len> is the number the holdoff was set to; the holdoff is never set from
\* a buffer that lacks the trailing comma.
C30_HoldoffOnlyAfterPrefix ==
    _holdoff > 0 => \E n \in 6..Len(_buffer) : CompletePrefix(_buffer, n, _holdoff)

\* What cmd_get_queue_length would return in this state
queue_length ==
    Finish("cmd_get_queue_length", sim_response(CMD_GET_BUFFER_LENGTH, _link_up_time),
           CMD_GET_BUFFER_LENGTH, payload_size).ret

\* The packets cmd_queue_packet has queued that were neither delivered by
\* get_data_packet nor dropped by a flush, counted from the calls made
Outstanding == Len(queued) - Len(delivered) - flushed

\* The step is the call c, and the call did not raise
Answered(c) == ops' # ops /\ call' = c /\ ret'.kind # "raise"

\* C27: on the connected simulator cmd_get_queue_length is always the number
\* of packets queued by cmd_queue_packet and not yet delivered or flushed;
\* each cmd_queue_packet returns true and raises it by one, and
\* cmd_flush_queue returns true and makes it 0.
C27_QueueLengthCountsOutstanding ==
    /\ [](queue_length = Returned("int", Outstanding))
    /\ [][/\ Answered("cmd_get_queue_length") => ret' = Returned("int", Outstanding)
          /\ Answered("cmd_queue_packet") =>
                 /\ ReturnedBool(ret', TRUE)
                 /\ queue_length'.value = queue_length.value + 1
          /\ Answered("cmd_flush_queue") =>
                 /\ ReturnedBool(ret', TRUE)
                 /\ queue_length'.value = 0]_vars

C27_Witness ==
    /\ call = "cmd_get_queue_length"
    /\ ret.kind = "int"
    /\ ret.value = 1
    /\ queued = <<SimPacketA, SimPacketB>>
    /\ delivered = <<SimPacketA>>

\* What cmd_get_diagnostic would report at this instant
diagnostic ==
    Finish("cmd_get_diagnostic", sim_response(CMD_GET_DIAGNOSTIC, _link_up_time),
           CMD_GET_DIAGNOSTIC, payload_size).ret.value

\* The oldest packet that was queued and neither delivered nor flushed
OldestOutstanding == queued[Len(delivered) + flushed + 1]

\* C28: get_data_packet returns a packet only when the link is up, the spacing
\* timer has elapsed and the FIFO is not empty; it then returns the oldest
\* queued packet, removes it and raises pkt_cnt by one; otherwise it returns
\* None and leaves the FIFO and pkt_cnt alone; two deliveries are never closer
\* than next_packet_duration.
C28_DeliveryWhenDue ==
    [][Answered("get_data_packet") =>
           IF Len(tx_queue) > 0 /\ diagnostic.link_up /\ _next_packet_time < 0
           THEN /\ ret'.kind = "bytes"
                /\ ret'.value = OldestOutstanding
                /\ tx_queue' = Tail(tx_queue)
                /\ Outstanding' = Outstanding - 1
                /\ diagnostic'.pkt_cnt = diagnostic.pkt_cnt + 1
                /\ Len(delivered) > 0 => since_delivery >= _next_packet_duration
           ELSE /\ ret'.kind = "None"
                /\ tx_queue' = tx_queue
                /\ Outstanding' = Outstanding
                /\ diagnostic'.pkt_cnt = diagnostic.pkt_cnt]_vars

C28_Witness ==
    /\ call = "get_data_packet"
    /\ _next_packet_duration = 2
    /\ ret.kind = "bytes"
    /\ ret.value = SimPacketA
    /\ delivered = <<SimPacketB, SimPacketA>>
    /\ diagnostic.pkt_cnt = 2

\* C29 as stated: after set_settings get_diagnostic reports link_up = false and
\* get_data_packet delivers nothing until link_up_duration has elapsed; from
\* the instant now >= link_up_time on, link_up is reported true again.
C29_LinkUpFromInstant ==
    [][/\ Answered("cmd_get_diagnostic") =>
              ret'.value.link_up = (since_configure' >= _link_up_duration)
       /\ (Answered("get_data_packet") /\ since_configure < _link_up_duration) =>
              ret'.kind = "None"]_vars

\* C29, amended: the link is reported up again only from the first instant
\* strictly after link_up_time (now > link_up_time); at now = link_up_time it
\* is still reported down and get_data_packet still delivers nothing.
C29_LinkUpAfterInstant ==
    /\ [](diagnostic.link_up <=> since_configure > _link_up_duration)
    /\ [][/\ Answered("cmd_get_diagnostic") =>
                 ret'.value.link_up = (since_configure' > _link_up_duration)
          /\ (Answered("get_data_packet") /\ since_configure <= _link_up_duration) =>
                 ret'.kind = "None"]_vars

C29_Witness ==
    /\ call = "cmd_get_diagnostic"
    /\ ret.kind = "dict"
    /\ ~ret.value.link_up
    /\ _link_up_duration = 1
    /\ since_configure = _link_up_duration
    /\ Len(tx_queue) = 1

\* C25: the worker keeps executing pump cycles until stop() is called: an
\* error raised inside a pump (parse_error, checksum_error or generic_error
\* surfacing from the modem client) does not terminate the worker.
C25_WorkerSurvivesErrors == run_event => worker # "raised"

\* A send-pump cycle: the worker goes through run_send
SendCycle == worker = "run_send" /\ worker' # "run_send"

\* C31: in each send-pump cycle, if the modem reports a queue length of
\* desired_queue_length or more, no datagram is dequeued, tx_buf is unchanged
\* and no packet is queued; otherwise at most one datagram is dequeued (only
\* when tx_buf holds fewer than payload_size bytes) and at most one packet is
\* queued.
C31_SendCycleEffect ==
    [][SendCycle =>
           IF queue_length.value >= desired_queue_length
           THEN /\ sock_tx_queue' = sock_tx_queue
                /\ _tx_buf' = _tx_buf
                /\ queued' = queued
                /\ tx_queue' = tx_queue
           ELSE /\ \/ sock_tx_queue' = sock_tx_queue
                   \/ Len(sock_tx_queue) > 0 /\ sock_tx_queue' = Tail(sock_tx_queue)
                /\ sock_tx_queue' # sock_tx_queue => Len(_tx_buf) < payload_size
                /\ Len(queued') <= Len(queued) + 1
                /\ Len(tx_queue') <= Len(tx_queue) + 1]_vars

\* After a cycle that found two packets waiting in the modem and left the
\* rest of the second frame in tx_buf
C31_Witness ==
    /\ worker = "run_receive"
    /\ _next_packet_duration = 2
    /\ Len(tx_queue) = desired_queue_length
    /\ Len(queued) = 4
    /\ sent = 2
    /\ since_delivery = 3
    /\ Len(_tx_buf) > 0

\* C38: when the transport worker is the only caller of cmd_queue_packet on
\* the simulator, the simulator's transmit FIFO never holds more than
\* desired_queue_length packets.
C38_ModemQueueBounded == Len(tx_queue) <= desired_queue_length

\* The FIFO is full, more packets are waiting in tx_buf, and the next cycle
\* is about to ask for the queue length
C38_Witness ==
    /\ worker = "run_send"
    /\ Len(tx_queue) = desired_queue_length
    /\ _next_packet_time >= 0
    /\ Len(_tx_buf) > payload_size

\* The padding of k bytes: empty frames 0x01 0x00, and a lone 0x00 at the end
\* when k is odd
PadPattern(k) == [i \in 1..k |-> IF i % 2 = 1 /\ i < k THEN 1 ELSE FRAME_END]

\* The packet is the slice followed by the padding that fills it up
PaddedSlice(packet, slice) ==
    /\ Len(packet) = payload_size
    /\ SubSeq(packet, 1, Len(slice)) = slice
    /\ SubSeq(packet, Len(slice) + 1, Len(packet)) = PadPattern(payload_size - Len(slice))

\* C32: every packet the send pump passes to cmd_queue_packet has exactly
\* payload_size bytes: a full slice of tx_buf, or a shorter final slice
\* extended with repetitions of 0x01 0x00 plus a single 0x00 when one byte
\* remains; for every input of length <= payload_size pad_payload returns
\* payload_size bytes that start with the input.
C32_PacketsHavePayloadSize ==
    /\ [](\A j \in 1..Len(queued) : Len(queued[j]) = payload_size)
    /\ [](\A k \in 0..payload_size :
              k <= Len(_tx_buf) =>
                  PaddedSlice(pad_payload(SubSeq(_tx_buf, 1, k), payload_size),
                              SubSeq(_tx_buf, 1, k)))
    /\ [][queued' # queued =>
              LET taken == Len(_tx_buf) - Len(_tx_buf')
              IN  /\ _tx_buf = SubSeq(_tx_buf, 1, taken) \o _tx_buf'
                  /\ PaddedSlice(queued'[Len(queued')], SubSeq(_tx_buf, 1, taken))
                  /\ taken < payload_size => _tx_buf' = <<>>]_vars

\* The last byte of a frame of five bytes went out with three bytes of padding
C32_Witness ==
    /\ payload_size = 4
    /\ Len(queued) = 2
    /\ queued[2] = <<FRAME_END, 1, FRAME_END, FRAME_END>>
    /\ _tx_buf = <<>>

\* The zero-free pieces of buf that a 0x00 follows, in stream order
RECURSIVE Segments(_)
Segments(buf) ==
    LET idx == find(buf, FRAME_END)
    IN  IF idx = 0 THEN <<>>
        ELSE <<SubSeq(buf, 1, idx - 1)>> \o Segments(SubSeq(buf, idx + 1, Len(buf)))

\* What is left of buf behind its last 0x00
RECURSIVE Remainder(_)
Remainder(buf) ==
    LET idx == find(buf, FRAME_END)
    IN  IF idx = 0 THEN buf ELSE Remainder(SubSeq(buf, idx + 1, Len(buf)))

\* The datagrams that unframe gives for the pieces, in their order
RECURSIVE Unframed(_)
Unframed(segments) ==
    IF Len(segments) = 0 THEN <<>>
    ELSE LET u == unframe(Head(segments))
         IN  (IF u.kind = "data" /\ Len(u.data) > 0 THEN <<u.data>> ELSE <<>>)
                 \o Unframed(Tail(segments))

\* The first n elements of a sequence
Take(seq, n) == SubSeq(seq, 1, IF n < Len(seq) THEN n ELSE Len(seq))

\* A receive-pump cycle in which the modem gave a packet
PacketArrives == worker = "run_receive" /\ worker' # "run_receive" /\ sent' = sent + 1

NonEmpty(datagrams) == SelectSeq(datagrams, LAMBDA d : Len(d) > 0)

\* Everything sent has gone through the modem and out of the socket
Drained ==
    /\ sock_tx_queue = <<>>
    /\ _tx_buf = <<>>
    /\ tx_queue = <<>>
    /\ sock_rx_queue = <<>>
    /\ worker = "run_send"

\* C40: a zero-length datagram is accepted by send() (returns true), framed
\* and transmitted, but on the receive side its correctly unframed empty
\* payload is never enqueued to rx_queue, so receive() never returns it;
\* datagrams sent after it are still delivered.
C40_EmptyDatagramLost ==
    /\ [](unframe(frame(<<>>)).kind = "data" /\ unframe(frame(<<>>)).data = <<>>)
    /\ []((Len(queued) > 0 /\ accepted[1] = <<>>) =>
              SubSeq(queued[1], 1, Len(frame(<<>>))) = frame(<<>>))
    /\ [](\A j \in 1..Len(sock_rx_queue) : sock_rx_queue[j] # <<>>)
    /\ [](\A j \in 1..Len(received) : received[j] # <<>>)
    /\ []((rx_max = 0 /\ Drained) => received = NonEmpty(accepted))
    /\ [][(ops' # ops /\ call' = "send" /\ args'.data = <<>>) =>
              /\ ReturnedBool(ret', TRUE)
              /\ accepted' = Append(accepted, <<>>)]_vars

\* An empty datagram and then a letter went through: only the letter came out
C40_Witness ==
    /\ rx_max = 0
    /\ accepted = <<<<>>, <<65>>>>
    /\ Len(queued) = 2
    /\ sent = 2
    /\ Drained
    /\ received = <<<<65>>>>

\* The datagrams that _fill_tx_buf has taken from the tx_queue
Dequeued == SubSeq(accepted, 1, Len(accepted) - Len(sock_tx_queue))

\* C37: after every send-pump cycle tx_buf is either empty or ends with the
\* frame terminator 0x00 of the last framed datagram, and padding is appended
\* only to a slice that consumed tx_buf completely; hence pad bytes are never
\* inserted between two bytes of the same frame: the packets queued, followed
\* by tx_buf, cut at the terminators, give back the datagrams.
C37_PaddingBetweenFrames ==
    /\ [](_tx_buf = <<>> \/ _tx_buf[Len(_tx_buf)] = FRAME_END)
    /\ [](Unframed(Segments(Flatten(queued) \o _tx_buf)) = NonEmpty(Dequeued))
    /\ [][(SendCycle /\ queued' # queued /\ _tx_buf' # <<>>) =>
              queued'[Len(queued')] \o _tx_buf' =
                  _tx_buf \o (IF sock_tx_queue' # sock_tx_queue
                              THEN frame(Head(sock_tx_queue)) ELSE <<>>)]_vars

\* A frame of 17 bytes went out in three packets, the last byte with padding
C37_Witness ==
    /\ Len(accepted) = 1
    /\ Len(frame(accepted[1])) = 2 * payload_size + 1
    /\ Len(queued) = 3
    /\ queued[3] = <<FRAME_END>> \o PadPattern(payload_size - 1)
    /\ _tx_buf = <<>>

\* The bytes that are still to go out: tx_buf and the frames of the tx_queue
RECURSIVE FramedLen(_)
FramedLen(queue) ==
    IF Len(queue) = 0 THEN 0 ELSE Len(frame(Head(queue))) + FramedLen(Tail(queue))

ToSend == Len(_tx_buf) + FramedLen(sock_tx_queue)

\* run_send has the answer of cmd_get_queue_length and goes on
QueueLengthBack == worker = "run_send" /\ call = "cmd_get_queue_length" /\ worker' # worker

\* run_send has the answer of cmd_queue_packet and goes on
QueuePacketBack == worker = "cmd_queue_packet" /\ call = "cmd_queue_packet" /\ worker' # worker

\* C39: the send pump removes a packet's bytes from tx_buf before calling
\* cmd_queue_packet and ignores the result, and it treats a timed-out
\* queue-length query (-1) as below the low-water mark: when the modem nacks
\* or does not answer, the cycle still consumes one packet from tx_buf and
\* those bytes are never sent again.
C39_PacketConsumedUnsent ==
    /\ [][(QueueLengthBack /\ ret.kind = "int" /\ ret.value = 0 - 1 /\ ToSend > 0) =>
              /\ worker' = "cmd_queue_packet"
              /\ Len(queued') = Len(queued) + 1
              /\ ToSend' < ToSend]_vars
    /\ [][(QueueLengthBack /\ worker' = "cmd_queue_packet") =>
              /\ call' = "cmd_get_queue_length"
              /\ out_buf' = out_buf
              /\ LET filled == _tx_buf \o (IF sock_tx_queue' # sock_tx_queue
                                            THEN frame(Head(sock_tx_queue)) ELSE <<>>)
                     n == Len(filled) - Len(_tx_buf')
                 IN  /\ 0 < n
                     /\ n <= payload_size
                     /\ _tx_buf' = SubSeq(filled, n + 1, Len(filled))
                     /\ queued' = Append(queued, pad_payload(SubSeq(filled, 1, n),
                                                             payload_size))]_vars
    /\ [][(QueuePacketBack /\ ret.kind = "bool") =>
              /\ worker' = "run_receive"
              /\ UNCHANGED <<_tx_buf, sock_tx_queue, queued>>]_vars
    /\ [][ToSend' <= ToSend /\ IsPrefix(queued, queued')]_vars

\* The modem answered nothing: the query timed out, the packet with the frame
\* of the datagram was taken from tx_buf, and cmd_queue_packet returned False
C39_Witness ==
    /\ fed = 0
    /\ worker = "cmd_queue_packet"
    /\ call = "cmd_queue_packet"
    /\ pc = "idle"
    /\ ret.kind = "bool"
    /\ ~ret.value
    /\ queued = <<pad_payload(frame(<<65>>), payload_size)>>
    /\ ToSend = 0

\* C34: wait_sentence (and hence every command) always terminates: get_packet
\* never blocks and consumes only the bytes currently available, and
\* wait_sentence returns null once the deadline has passed whatever the
\* device delivers, including an endless supply of bytes with no EOP or with
\* no sentence of the awaited code.
C34_WaitSentenceTerminates == (pc # "idle") ~> (pc = "idle")

\* A get_packet call of this step gave a sentence
Parsed == Len(emitted') = Len(emitted) + 1 /\ emitted'[Len(emitted')].kind = "sentence"

\* The sentence parsed in this step
Sentence == emitted'[Len(emitted')]

\* C35: request correlation uses the sentence code only and has no freshness
\* check: wait_sentence silently discards any parsed sentence whose code is
\* neither the awaited code nor got_packet, and a response that reaches the
\* device after its command has timed out is returned as the reply to the
\* next command issued with the same code.
C35_CorrelationByCode ==
    /\ [][(pc = "wait" /\ Parsed /\ Sentence.cmd \notin {awaited, RESP_GOT_PACKET}) =>
              /\ pc' = "wait"
              /\ UNCHANGED <<_rx_queue, result, ret, ret_data, delivered, awaited, call,
                             out_buf, ops>>]_vars
    /\ [][(pc = "wait" /\ Parsed /\ Sentence.cmd = awaited
                /\ call = "cmd_get_queue_length") =>
              /\ pc' = "idle"
              /\ result' = Sentence
              /\ ret'.kind = "int"
              /\ ret'.value = int(Sentence.options[1]).value]_vars
    /\ [][(pc = "idle" /\ call = "cmd_get_queue_length" /\ ret.kind = "int"
                /\ ret.value = 0 - 1 /\ pc' = "wait" /\ call' = call) =>
              /\ in_buf' = in_buf
              /\ UNCHANGED parserVars]_vars

\* Two queue-length queries were written and the device got "wrl,2" and then
\* "wrl,0"; the first query returned -1 with nothing parsed, and the second
\* one returned the 2
C35_Witness ==
    /\ stream = Reply(CMD_GET_BUFFER_LENGTH, <<50>>) \o Reply(CMD_GET_BUFFER_LENGTH, <<48>>)
    /\ out_buf = do_frame(CMD_GET_BUFFER_LENGTH, DIR_CMD, FALSE, <<>>, FALSE)
                     \o do_frame(CMD_GET_BUFFER_LENGTH, DIR_CMD, FALSE, <<>>, FALSE)
    /\ Len(emitted) = 1
    /\ pc = "idle"
    /\ call = "cmd_get_queue_length"
    /\ ret.kind = "int"
    /\ ret.value = 2
    /\ in_buf = Reply(CMD_GET_BUFFER_LENGTH, <<48>>)

\* C36: the client never examines the direction byte of a parsed sentence: a
\* command-direction sentence (for example 'wcl,8' or 'wcp,8,<payload>') is
\* accepted as the reply to a pending command of that code, or queued and
\* returned as a received data packet, exactly like the response-direction
\* sentence.
C36_DirectionIgnored ==
    /\ [][(pc = "wait" /\ Parsed /\ Sentence.cmd = awaited) =>
              /\ pc' = "idle"
              /\ result' = Sentence
              /\ IF call = "cmd_get_queue_length"
                 THEN ret'.kind = "int" /\ ret'.value = int(Sentence.options[1]).value
                 ELSE ret'.kind = "bytes" /\ ret'.value = Sentence.options[2]]_vars
    /\ [][(pc = "wait" /\ Parsed /\ Sentence.cmd = RESP_GOT_PACKET
                /\ awaited # RESP_GOT_PACKET) =>
              /\ pc' = "wait"
              /\ _rx_queue' = Append(_rx_queue, Sentence)]_vars
    /\ [][(pc = "idle" /\ Parsed /\ Sentence.cmd = RESP_GOT_PACKET) =>
              /\ ret'.kind = "bytes"
              /\ ret'.value = Sentence.options[2]]_vars
    /\ [][(pc = "idle" /\ call' = "get_data_packet" /\ ops' # ops /\ Len(_rx_queue) > 0) =>
              /\ ret'.kind = "bytes"
              /\ ret'.value = _rx_queue[1].options[2]
              /\ _rx_queue' = Tail(_rx_queue)]_vars

\* The device got "wcp,1,A" and "wcl,1": the queue-length query returned 1,
\* and get_data_packet then returned the A that was queued meanwhile
C36_Witness ==
    /\ Len(emitted) = 2
    /\ emitted[1].dir = DIR_CMD
    /\ emitted[1].cmd = RESP_GOT_PACKET
    /\ emitted[2].dir = DIR_CMD
    /\ emitted[2].cmd = CMD_GET_BUFFER_LENGTH
    /\ out_buf = do_frame(CMD_GET_BUFFER_LENGTH, DIR_CMD, FALSE, <<>>, FALSE)
    /\ result = emitted[2]
    /\ call = "get_data_packet"
    /\ ret.kind = "bytes"
    /\ ret.value = <<65>>
    /\ delivered = <<<<65>>>>
    /\ _rx_queue = <<>>

====
